---- MODULE Spec2Model ----
(***************************************************************************)
(* State-machine model of ax.generation_strategy.GenerationStrategy        *)
(* (src/ax/generation_strategy/generation_strategy.py).                    *)
(*                                                                         *)
(* The strategy code is translated from the source.  GenerationNode,       *)
(* GenerationStep and TransitionCriterion live in modules that are not     *)
(* part of the source tree at hand (generation_node.py,                    *)
(* transition_criterion.py); their behaviour is modelled from the          *)
(* specification document and is marked as such below.                     *)
(***************************************************************************)
EXTENDS Integers, Sequences, FiniteSets, TLC

(***************************************************************************)
(* Bounds of the model (not program constants).                            *)
(***************************************************************************)
MaxRuns == 3          \* generator runs a strategy produces in all
MaxNumTrials == 2     \* largest num_trials argument tried

Null == "<null>"      \* Python None for names / handles

\* Python None where a GeneratorRun is expected
NoGeneratorRun == [node |-> Null, id |-> 0]

ExperimentNames == {"exp_a", "exp_b"}

FirstExperiment == "exp_a"

RUNNING == "RUNNING"
COMPLETED == "COMPLETED"
FAILED == "FAILED"

(***************************************************************************)
(* Small sequence helpers.                                                 *)
(***************************************************************************)
Range(s) == {s[i] : i \in 1..Len(s)}

Max2(a, b) == IF a >= b THEN a ELSE b

Min2(a, b) == IF a <= b THEN a ELSE b

RECURSIVE MinOfSeq(_)
MinOfSeq(s) ==
    IF Len(s) = 1 THEN s[1] ELSE Min2(s[1], MinOfSeq(Tail(s)))

IsPrefix(s, t) == Len(s) <= Len(t) /\ SubSeq(t, 1, Len(s)) = s

RECURSIVE Flatten(_)
Flatten(ss) == IF ss = <<>> THEN <<>> ELSE Head(ss) \o Flatten(Tail(ss))

(***************************************************************************)
(* Transition criteria (modelled from the specification, sections 3, 4.1). *)
(* A criterion is a record                                                 *)
(*   cls                       criterion_class                             *)
(*   threshold                 trial-count threshold (trial based classes) *)
(*   counted                   trial statuses that count to the threshold  *)
(*   transition_to             target node name or Null                    *)
(*   continue_trial_generation                                             *)
(*   block_transition_if_unmet                                             *)
(*   block_gen_if_met                                                      *)
(***************************************************************************)
MinTrials(threshold, counted, to, blockGen) ==
    [cls |-> "MinTrials", threshold |-> threshold, counted |-> counted,
     transition_to |-> to, continue_trial_generation |-> FALSE,
     block_transition_if_unmet |-> TRUE, block_gen_if_met |-> blockGen]

MaxGenerationParallelism(threshold, to, blockTransition, blockGen) ==
    [cls |-> "MaxGenerationParallelism", threshold |-> threshold,
     counted |-> {RUNNING},
     transition_to |-> to, continue_trial_generation |-> FALSE,
     block_transition_if_unmet |-> blockTransition,
     block_gen_if_met |-> blockGen]

AutoTransitionAfterGen(to, continueTrial) ==
    [cls |-> "AutoTransitionAfterGen", threshold |-> 0, counted |-> {},
     transition_to |-> to, continue_trial_generation |-> continueTrial,
     block_transition_if_unmet |-> TRUE, block_gen_if_met |-> FALSE]

TrialBased(tc) == tc.cls \in {"MinTrials", "MaxGenerationParallelism"}

(***************************************************************************)
(* GenerationStep inputs and the criteria a step declares for itself       *)
(* (modelled from the specification, sections 3 and 4.3).                  *)
(***************************************************************************)
Step(numTrials, minObserved, hasMaxPar, maxPar) ==
    [num_trials |-> numTrials, min_trials_observed |-> minObserved,
     has_max_parallelism |-> hasMaxPar, max_parallelism |-> maxPar,
     completion_criteria |-> <<>>]

StepCriteria(step) ==
    (IF step.num_trials # -1
        THEN <<MinTrials(step.num_trials, {RUNNING, COMPLETED}, Null, TRUE)>>
        ELSE <<>>)
    \o (IF step.min_trials_observed > 0
        THEN <<MinTrials(step.min_trials_observed, {COMPLETED}, Null, FALSE)>>
        ELSE <<>>)
    \o (IF step.has_max_parallelism
        THEN <<MaxGenerationParallelism(step.max_parallelism, Null, FALSE, TRUE)>>
        ELSE <<>>)
    \o step.completion_criteria

StepNames ==
    <<"GenerationStep_0", "GenerationStep_1", "GenerationStep_2",
      "GenerationStep_3", "GenerationStep_4">>

StepName(idx) == StepNames[idx + 1]

Node(name, criteria) ==
    [node_name |-> name, transition_criteria |-> criteria,
     is_step |-> FALSE, index |-> -1]

(***************************************************************************)
(* _validate_and_set_step_sequence: names the steps, sets their index and  *)
(* rewires the transition_to of every criterion that is not a              *)
(* MaxGenerationParallelism.  The guard of the rewiring is                 *)
(* idx < len(self._steps), which holds for every idx of the enumeration.   *)
(***************************************************************************)
WireStepAllCriteria(step, idx, nSteps) ==
    LET tcs == StepCriteria(step) IN
    [node_name |-> StepName(idx),
     transition_criteria |->
        [k \in 1..Len(tcs) |->
            [tcs[k] EXCEPT !.transition_to = StepName(idx + 1)]],
     is_step |-> TRUE, index |-> idx]

\* a wiring that passes over the step that follows
WireStepSkipping(step, idx, nSteps) ==
    LET tcs == StepCriteria(step) IN
    [node_name |-> StepName(idx),
     transition_criteria |->
        [k \in 1..Len(tcs) |->
            IF tcs[k].cls # "MaxGenerationParallelism"
               THEN [tcs[k] EXCEPT
                       !.transition_to = StepName(idx + 2)]
               ELSE tcs[k]],
     is_step |-> TRUE, index |-> idx]

WireStep(step, idx, nSteps) ==
    LET tcs == StepCriteria(step) IN
    [node_name |-> StepName(idx),
     transition_criteria |->
        [k \in 1..Len(tcs) |->
            IF idx < nSteps /\ tcs[k].cls # "MaxGenerationParallelism"
               THEN [tcs[k] EXCEPT !.transition_to = StepName(idx + 1)]
               ELSE tcs[k]],
     is_step |-> TRUE, index |-> idx]

SetStepSequence(steps) ==
    [i \in 1..Len(steps) |-> WireStep(steps[i], i - 1, Len(steps))]

(***************************************************************************)
(* The strategies explored.  Each is what the constructor leaves in        *)
(* self._nodes for one accepted input.                                     *)
(*   StepsAB        steps A (num_trials = 2), B (num_trials = -1)          *)
(*   StepsFinite    steps A (num_trials = 1, min_trials_observed = 1),     *)
(*                  B (num_trials = 1)                                     *)
(*   NodesBatch     n1 -> n2 within one trial, n2 -> n1 for the next trial *)
(*   NodesParallel  n1 -> n2 after one trial; n2 carries only a            *)
(*                  transition-blocking MaxGenerationParallelism, which    *)
(*                  may omit its target                                    *)
(*   NodesSolo      a single node without criteria                         *)
(***************************************************************************)
StepsAB == SetStepSequence(<<Step(2, 0, FALSE, 0), Step(-1, 0, FALSE, 0)>>)

StepsFinite == SetStepSequence(<<Step(1, 1, FALSE, 0), Step(1, 0, FALSE, 0)>>)

NodesBatch ==
    <<Node("n1", <<AutoTransitionAfterGen("n2", TRUE)>>),
      Node("n2", <<AutoTransitionAfterGen("n1", FALSE)>>)>>

NodesParallel ==
    <<Node("n1", <<MinTrials(1, {RUNNING, COMPLETED}, "n2", TRUE)>>),
      Node("n2", <<MaxGenerationParallelism(1, Null, TRUE, FALSE)>>)>>

NodesSolo == <<Node("solo", <<>>)>>

\* three nodes in a ring, each left as soon as it has generated or has
\* been skipped; explored on its own, with NodesSolo
NodesRing ==
    <<Node("n1", <<AutoTransitionAfterGen("n2", FALSE)>>),
      Node("n2", <<AutoTransitionAfterGen("n3", FALSE)>>),
      Node("n3", <<AutoTransitionAfterGen("n1", FALSE)>>)>>

\* two nodes that hand the trial to each other; explored with NodesRing
NodesLoop ==
    <<Node("n1", <<AutoTransitionAfterGen("n2", TRUE)>>),
      Node("n2", <<AutoTransitionAfterGen("n1", TRUE)>>)>>

\* w hands over to x after generating; x goes back once it has a trial
\* that has not failed, and may not generate beyond its first trial
NodesNeedy ==
    <<Node("w", <<AutoTransitionAfterGen("x", FALSE)>>),
      Node("x", <<MinTrials(1, {RUNNING, COMPLETED, FAILED}, "w", TRUE),
                  MinTrials(1, {RUNNING, COMPLETED}, "w", FALSE)>>)>>

\* three steps of one trial, one trial and any number of trials
StepsABC ==
    SetStepSequence(<<Step(1, 0, FALSE, 0), Step(1, 0, FALSE, 0),
                      Step(-1, 0, FALSE, 0)>>)

Strategies == {StepsAB, StepsFinite, NodesBatch, NodesParallel, NodesSolo}

(***************************************************************************)
(* State.                                                                  *)
(***************************************************************************)
VARIABLES
    nodes,               \* self._nodes (fixed after construction)
    curr,                \* self._curr, as a position in nodes
    generator_runs,      \* self._generator_runs
    experiment,          \* name of self._experiment, Null when unset
    model,               \* self._model: handle of a fitted adapter or Null
    fitted_model,        \* node._fitted_model of every node
    should_skip,         \* node._should_skip of every node
    previous_node_name,  \* node._previous_node_name of every node
    trials,              \* the experiment's trials
    pc,                  \* "idle", or the position inside a generation call
    call,                \* locals of the generation call in progress
    result,              \* outcome of the call that has just finished
    to_attach,           \* returned trials the caller has not attached yet
    pre,                 \* strategy state when that call started
    node_ids,            \* identity of each object in self._nodes
    other                \* a second strategy object (see clone_reset)

vars ==
    <<nodes, curr, generator_runs, experiment, model, fitted_model,
      should_skip, previous_node_name, trials, pc, call, result,
      to_attach, pre, node_ids, other>>

NodeIdx == 1..Len(nodes)

NodeNames == {nodes[i].node_name : i \in NodeIdx}

\* self.is_node_based
is_node_based == \A i \in NodeIdx : ~nodes[i].is_step

\* self.nodes_dict[name]: the dict keeps the last node of a name
nodes_dict(name) ==
    CHOOSE i \in NodeIdx :
        /\ nodes[i].node_name = name
        /\ \A j \in NodeIdx : nodes[j].node_name = name => j <= i

\* self._nodes.index(node)
IndexOfName(name) ==
    CHOOSE i \in NodeIdx :
        /\ nodes[i].node_name = name
        /\ \A j \in NodeIdx : nodes[j].node_name = name => i <= j

(***************************************************************************)
(* GenerationNode queries (modelled from the specification, section 4.2).  *)
(* They read the experiment's trials, the strategy's last generator run    *)
(* and the node's _should_skip flag; runs and skip are parameters so that  *)
(* they can be evaluated in the middle of a generation call.               *)
(***************************************************************************)
NumTrialsCounted(name, counted) ==
    Cardinality({t \in 1..Len(trials) :
                    name \in trials[t].nodes /\ trials[t].status \in counted})

IsMet(tc, i, runs, skip) ==
    IF TrialBased(tc)
       THEN NumTrialsCounted(nodes[i].node_name, tc.counted) >= tc.threshold
       ELSE \/ skip[i]
            \/ /\ runs # <<>>
               /\ runs[Len(runs)].node = nodes[i].node_name

\* node.transition_edges: the targets in order of first appearance
RECURSIVE EdgeTargets(_, _)
EdgeTargets(tcs, seen) ==
    IF tcs = <<>> THEN <<>>
    ELSE IF Head(tcs).transition_to \in seen
         THEN EdgeTargets(Tail(tcs), seen)
         ELSE <<Head(tcs).transition_to>>
              \o EdgeTargets(Tail(tcs), seen \cup {Head(tcs).transition_to})

transition_edges(i, target) ==
    SelectSeq(nodes[i].transition_criteria,
              LAMBDA tc : tc.transition_to = target)

EdgeFires(i, target, runs, skip) ==
    LET blocking == SelectSeq(transition_edges(i, target),
                              LAMBDA tc : tc.block_transition_if_unmet)
    IN  /\ blocking # <<>>
        /\ \A k \in 1..Len(blocking) : IsMet(blocking[k], i, runs, skip)

\* a criterion that has used up the node's generation budget while the
\* edge cannot be taken: the node needs data before it can go on
EdgeNeedsData(i, target, runs, skip) ==
    /\ ~EdgeFires(i, target, runs, skip)
    /\ \E k \in 1..Len(nodes[i].transition_criteria) :
          LET tc == nodes[i].transition_criteria[k] IN
          /\ tc.transition_to = target
          /\ tc.cls = "MinTrials"
          /\ tc.block_gen_if_met
          /\ IsMet(tc, i, runs, skip)

RECURSIVE ScanEdges(_, _, _, _, _)
ScanEdges(i, targets, runs, skip, raise) ==
    IF targets = <<>>
       THEN [exc |-> Null, fires |-> FALSE, target |-> nodes[i].node_name]
    ELSE IF EdgeFires(i, Head(targets), runs, skip)
       THEN [exc |-> Null, fires |-> TRUE, target |-> Head(targets)]
    ELSE IF raise /\ EdgeNeedsData(i, Head(targets), runs, skip)
       THEN [exc |-> "DataRequiredError", fires |-> FALSE,
             target |-> nodes[i].node_name]
    ELSE ScanEdges(i, Tail(targets), runs, skip, raise)

\* node.should_transition_to_next_node(raise_data_required_error)
should_transition_to_next_node(i, runs, skip, raise) ==
    ScanEdges(i, EdgeTargets(nodes[i].transition_criteria, {}), runs, skip,
              raise)

\* node.is_completed
is_completed(i, runs, skip) ==
    should_transition_to_next_node(i, runs, skip, FALSE).fires

\* node.new_trial_limit()
new_trial_limit(i) ==
    LET blocking == SelectSeq(nodes[i].transition_criteria,
                       LAMBDA tc : tc.block_gen_if_met /\ TrialBased(tc))
        deltas == [k \in 1..Len(blocking) |->
                      blocking[k].threshold
                      - NumTrialsCounted(nodes[i].node_name,
                                         blocking[k].counted)]
    IN  IF blocking = <<>> THEN -1 ELSE MinOfSeq(deltas)

(***************************************************************************)
(* GenerationStrategy queries.                                             *)
(***************************************************************************)
\* a completion test satisfied by any one completed node
optimization_complete_any(runs, skip) ==
    \E i \in NodeIdx : is_completed(i, runs, skip)

\* self.optimization_complete
optimization_complete(runs, skip) ==
    \A i \in NodeIdx : is_completed(i, runs, skip)

\* self.last_generator_run
last_generator_run ==
    IF generator_runs # <<>> THEN generator_runs[Len(generator_runs)]
    ELSE NoGeneratorRun

\* the model property: return self._curr._fitted_model
ModelProperty == fitted_model[curr]

\* a decorator that lets every strategy through
step_based_gs_only_skipped(r) == r

\* the step_based_gs_only decorator around an accessor whose body gives r
step_based_gs_only(r) ==
    IF is_node_based THEN [exc |-> "UnsupportedError", value |-> -1]
    ELSE r

\* self.current_step_index
current_step_index ==
    step_based_gs_only(
       [exc |-> Null, value |-> IndexOfName(nodes[curr].node_name) - 1])

\* self.model_transitions: the body raises DeprecationWarning
model_transitions ==
    step_based_gs_only([exc |-> "DeprecationWarning", value |-> -1])

\* self._steps
_steps == step_based_gs_only([exc |-> Null, value |-> nodes])

\* a setter without the comparison of names
SetterAcceptsAny(e) == TRUE

\* the experiment setter accepts the first experiment and, afterwards, any
\* experiment of the same name
SetterAccepts(e) == experiment = Null \/ e = experiment

\* a setter raising the error class of the unsupported operations
SetterErrorUnsupported == "UnsupportedError"

\* exception class raised by the experiment setter on a different experiment
SetterError == "ValueError"

(***************************************************************************)
(* _maybe_transition_to_next_node, as a function of the strategy state:    *)
(* the exception raised (Null if none), the new _curr and _model and the   *)
(* returned flag.                                                          *)
(***************************************************************************)
\* a transition that unsets the model but leaves _curr where it was
MaybeTransitionStays(c, mdl, runs, skip, raise) ==
    LET st == should_transition_to_next_node(c, runs, skip, raise)
        stay == [exc |-> Null, curr |-> c, model |-> mdl, moved |-> FALSE]
    IN
    IF st.exc # Null THEN [stay EXCEPT !.exc = st.exc]
    ELSE IF ~st.fires THEN stay
    ELSE [stay EXCEPT !.model = Null, !.moved = TRUE]

\* _maybe_transition_to_next_node
\* a transition that moves and keeps the model of the node it leaves
MaybeTransitionKeepsModel(c, mdl, runs, skip, raise) ==
    LET st == should_transition_to_next_node(c, runs, skip, raise)
        stay == [exc |-> Null, curr |-> c, model |-> mdl, moved |-> FALSE]
    IN
    IF st.exc # Null THEN [stay EXCEPT !.exc = st.exc]
    ELSE IF ~st.fires THEN stay
    ELSE IF optimization_complete(runs, skip)
       THEN [stay EXCEPT !.exc = "GenerationStrategyCompleted"]
    ELSE IF st.target = Null /\ c + 1 > Len(nodes)
       THEN [stay EXCEPT !.exc = "IndexError"]
    ELSE
       LET next_node == IF st.target = Null THEN nodes[c + 1].node_name
                        ELSE st.target
       IN  IF next_node \in NodeNames
              THEN [exc |-> Null, curr |-> nodes_dict(next_node),
                    model |-> mdl, moved |-> TRUE]
              ELSE [stay EXCEPT !.moved = TRUE]

MaybeTransition(c, mdl, runs, skip, raise) ==
    LET st == should_transition_to_next_node(c, runs, skip, raise)
        stay == [exc |-> Null, curr |-> c, model |-> mdl, moved |-> FALSE]
    IN
    IF st.exc # Null THEN [stay EXCEPT !.exc = st.exc]
    ELSE IF ~st.fires THEN stay
    ELSE IF optimization_complete(runs, skip)
       THEN [stay EXCEPT !.exc = "GenerationStrategyCompleted"]
    ELSE IF st.target = Null /\ c + 1 > Len(nodes)
       THEN [stay EXCEPT !.exc = "IndexError"]
    ELSE
       LET next_node == IF st.target = Null THEN nodes[c + 1].node_name
                        ELSE st.target
       IN  IF next_node \in NodeNames
              THEN [exc |-> Null, curr |-> nodes_dict(next_node),
                    model |-> Null, moved |-> TRUE]
              ELSE [stay EXCEPT !.moved = TRUE]

(***************************************************************************)
(* _should_continue_gen_for_trial                                          *)
(***************************************************************************)
\* a continuation decided by the check alone, whatever the edge says
ShouldContinueWheneverFires(c, runs, skip) ==
    [exc |-> Null,
     value |-> should_transition_to_next_node(c, runs, skip, FALSE).fires]

ShouldContinueGenForTrial(c, runs, skip) ==
    LET st == should_transition_to_next_node(c, runs, skip, FALSE)
        edge == transition_edges(c, st.target)
    IN
    IF ~st.fires THEN [exc |-> Null, value |-> FALSE]
    ELSE IF st.target = Null THEN [exc |-> "AssertionError", value |-> FALSE]
    ELSE [exc |-> Null,
          value |-> \A k \in 1..Len(edge) : edge[k].continue_trial_generation]


(***************************************************************************)
(* _validate_arms_per_node; arms_per_node is None or a map, of which only  *)
(* the key set matters.                                                    *)
(***************************************************************************)
NoArmsPerNode == [given |-> FALSE, keys |-> {}]

\* a validation that lets every map through
ValidArmsPerNodeAlways(apn) == TRUE

\* _validate_arms_per_node passes
ValidArmsPerNode(apn) == ~apn.given \/ NodeNames \subseteq apn.keys

\* a head of the per-trial loop without the completion check
EnterTrialUnchecked(apn, c, mdl, runs, skip) ==
    IF ~ValidArmsPerNode(apn)
       THEN [exc |-> "UserInputError", curr |-> c, model |-> mdl]
    ELSE [exc |-> Null, curr |-> c, model |-> mdl]

\* The head of _gen_with_multiple_nodes, up to its while loop: the exception
\* it raises (Null if none) and _curr and _model as it leaves them.
EnterTrial(apn, c, mdl, runs, skip) ==
    IF optimization_complete(runs, skip)
       THEN [exc |-> "GenerationStrategyCompleted", curr |-> c, model |-> mdl]
    ELSE IF ~ValidArmsPerNode(apn)
       THEN [exc |-> "UserInputError", curr |-> c, model |-> mdl]
    ELSE [exc |-> Null, curr |-> c, model |-> mdl]

\* extract_pending_observations(experiment): arms of the trials awaiting
\* evaluation
ExtractPending ==
    UNION {trials[t].arms : t \in {u \in 1..Len(trials) :
                                      trials[u].status = RUNNING}}

(***************************************************************************)
(* Call records: the arguments and locals of a generation call, and what   *)
(* the caller sees when it ends.                                           *)
(*   requested   num_trials as passed, kept for the calls that return      *)
(*   swallowed   the current per-trial loop logged "Model required more    *)
(*               data" and stopped                                         *)
(*   trial_runs  the runs of the per-trial loop the call ended in          *)
(*   arms_per_node  the arms_per_node argument, kept for a call that       *)
(*               raises or whose map lacks a node name                     *)
(*   answer      what an evaluation of the transition check, or the        *)
(*               _maybe_transition_to_next_node of a limit query, returned *)
(*   node_gens   the node gen invocations made so far, each with the       *)
(*               pending map it was passed, the number of runs the call    *)
(*               had recorded by then and the node's _should_skip flag on  *)
(*               entry                                                     *)
(*   at          the statement that raised: "setter" (341/407), "entry"    *)
(*               (745-756, first trial), "next_entry" (745-756, later      *)
(*               trial), "lookup" (770), "transition" (776), "node_gen"    *)
(*               (778), "continue_check" (809), "return" (350-357)         *)
(***************************************************************************)
NoCall ==
    [kind |-> "none", experiment |-> Null, requested |-> 0,
     arms_per_node |-> NoArmsPerNode, pending |-> {}, aliased |-> FALSE,
     num_trials |-> 0, grs_for_multiple_trials |-> <<>>,
     grs_this_gen |-> <<>>, first_generation_in_multi |-> TRUE,
     caller_pending |-> {}, passed_pending |-> {}, swallowed |-> FALSE,
     node_gens |-> {}]

NoResult ==
    [op |-> "none", exc |-> Null, at |-> Null, runs |-> <<>>,
     limit |-> <<0, FALSE>>, requested |-> 0, experiment |-> Null,
     gen_invoked |-> FALSE, caller_pending_intact |-> TRUE,
     swallowed |-> FALSE, trial_runs |-> 0, node_gens |-> {},
     arms_per_node |-> NoArmsPerNode, answer |-> Null]

Snapshot ==
    [curr |-> curr, generator_runs |-> generator_runs, model |-> model,
     fitted_model |-> fitted_model, should_skip |-> should_skip,
     previous_node_name |-> previous_node_name, experiment |-> experiment,
     complete |-> optimization_complete(generator_runs, should_skip),
     check |-> should_transition_to_next_node(curr, generator_runs,
                                              should_skip, FALSE),
     step_index |-> current_step_index]

\* pre when no call has just finished
NoSnapshot ==
    [curr |-> 0, generator_runs |-> <<>>, model |-> Null,
     fitted_model |-> <<>>, should_skip |-> <<>>,
     previous_node_name |-> <<>>, experiment |-> Null, complete |-> FALSE,
     check |-> [exc |-> Null, fires |-> FALSE, target |-> Null],
     step_index |-> [exc |-> Null, value |-> -1]]

PendingInputs ==
    {[isNone |-> TRUE, arms |-> {}], [isNone |-> FALSE, arms |-> {0}]}

ArmsPerNodeInputs ==
    {NoArmsPerNode, [given |-> TRUE, keys |-> NodeNames],
     [given |-> TRUE, keys |-> NodeNames \ {nodes[1].node_name}]}

(***************************************************************************)
(* Objects.  A node is an object with an identity; its mutable attributes  *)
(* (_fitted_model, _should_skip, _previous_node_name) belong to the        *)
(* object, so a strategy sees every write made through another strategy    *)
(* that holds the same object.  other is the strategy object the           *)
(* operations are not being applied to, with the trials of its experiment. *)
(***************************************************************************)
NoOther ==
    [exists |-> FALSE, is |-> Null, nodes |-> <<>>, node_ids |-> <<>>,
     curr |-> 0, generator_runs |-> <<>>, experiment |-> Null,
     model |-> Null, fitted_model |-> <<>>, should_skip |-> <<>>,
     previous_node_name |-> <<>>, trials |-> <<>>, to_attach |-> <<>>]

\* the attribute attr of other's node j after self's nodes got the
\* attribute values mine
SeenByOther(attr, mine, j) ==
    IF \E i \in NodeIdx : node_ids[i] = other.node_ids[j]
       THEN mine[CHOOSE i \in NodeIdx : node_ids[i] = other.node_ids[j]]
       ELSE attr[j]

\* a step of self: node identities stay, and other sees the writes to the
\* objects it shares with self
HeapFrame ==
    /\ node_ids' = node_ids
    /\ other' =
          [other EXCEPT
             !.fitted_model =
                [j \in DOMAIN @ |-> SeenByOther(@, fitted_model', j)],
             !.should_skip =
                [j \in DOMAIN @ |-> SeenByOther(@, should_skip', j)],
             !.previous_node_name =
                [j \in DOMAIN @ |-> SeenByOther(@, previous_node_name', j)]]

InitOf(strategies) ==
    /\ nodes \in strategies
    /\ curr = 1
    /\ generator_runs = <<>>
    /\ experiment = Null
    /\ model = Null
    /\ fitted_model = [i \in NodeIdx |-> Null]
    /\ should_skip = [i \in NodeIdx |-> FALSE]
    /\ previous_node_name = [i \in NodeIdx |-> Null]
    /\ trials = <<>>
    /\ pc = "idle"
    /\ call = NoCall
    /\ result = NoResult
    /\ to_attach = <<>>
    /\ pre = NoSnapshot
    /\ node_ids = [i \in NodeIdx |-> i]
    /\ other = NoOther

Init == InitOf(Strategies)

\* the call c ends: it raises exc at the statement at, or (exc = Null)
\* returns runs
Finish(c, exc, at, runs) ==
    /\ result' = [op |-> c.kind, exc |-> exc, at |-> at, runs |-> runs,
                  limit |-> <<0, FALSE>>, requested |-> IF exc = Null THEN c.requested
                                                           ELSE 0,
                  experiment |-> c.experiment,
                  gen_invoked |-> (c.node_gens # {}),
                  caller_pending_intact |->
                     (c.caller_pending = c.passed_pending),
                  swallowed |-> c.swallowed,
                  trial_runs |-> Len(c.grs_this_gen),
                  node_gens |-> c.node_gens,
                  arms_per_node |->
                     IF exc = Null /\ NodeNames \subseteq c.arms_per_node.keys
                        THEN NoArmsPerNode
                        ELSE c.arms_per_node,
                  answer |-> Null]
    /\ to_attach' = runs
    /\ pc' = "idle"
    /\ call' = NoCall

\* the experiment setter, then the head of the first per-trial loop
Begin(c0, e) ==
    /\ pc = "idle"
    /\ result = NoResult
    /\ Len(generator_runs) < MaxRuns
    /\ pre' = Snapshot
    /\ UNCHANGED <<nodes, generator_runs, fitted_model, should_skip,
                   previous_node_name, trials>>
    /\ IF ~SetterAccepts(e)
          THEN /\ Finish(c0, SetterError, "setter", <<>>)
               /\ UNCHANGED <<experiment, curr, model>>
          ELSE LET en == EnterTrial(c0.arms_per_node, curr, model,
                                    generator_runs, should_skip)
               IN  /\ experiment' = e
                   /\ curr' = en.curr
                   /\ model' = en.model
                   /\ IF en.exc # Null
                         THEN Finish(c0, en.exc, "entry", <<>>)
                         ELSE /\ pc' = "loop"
                              /\ call' = c0
                              /\ result' = NoResult
                              /\ to_attach' = <<>>
    /\ HeapFrame

(***************************************************************************)
(* gen(experiment, pending_observations): binds the experiment and enters  *)
(* _gen_with_multiple_nodes, which works on the caller's map itself (a     *)
(* fresh map when the caller passed None).                                 *)
(***************************************************************************)
Gen(e, P) ==
    Begin([NoCall EXCEPT !.kind = "gen", !.experiment = e,
                         !.requested = 1, !.num_trials = 1,
                         !.pending = P.arms, !.aliased = ~P.isNone,
                         !.caller_pending = P.arms,
                         !.passed_pending = P.arms],
          e)

\* a count of per-trial loops that ignores the node's limit
ClampNumTrialsUnclamped(num_trials, new_trials_limit) == Max2(num_trials, 1)

\* the number of per-trial loops of gen_for_multiple_trials_with_multiple_models
ClampNumTrials(num_trials, new_trials_limit) ==
    IF new_trials_limit = -1 THEN Max2(num_trials, 1)
    ELSE Max2(Min2(num_trials, new_trials_limit), 1)

(***************************************************************************)
(* gen_for_multiple_trials_with_multiple_models: binds the experiment,     *)
(* copies the pending observations, clamps num_trials and enters the first *)
(* per-trial loop.                                                         *)
(***************************************************************************)
GenMulti(e, P, num_trials, apn) ==
    Begin([NoCall EXCEPT !.kind = "multi", !.experiment = e,
                         !.requested = num_trials,
                         !.num_trials =
                            ClampNumTrials(num_trials, new_trial_limit(curr)),
                         !.arms_per_node = apn,
                         !.pending = IF P.isNone THEN ExtractPending
                                     ELSE P.arms,
                         !.caller_pending = P.arms,
                         !.passed_pending = P.arms],
          e)

\* what one invocation of the current node's gen does: it returns a
\* generator run, returns None (the node is skipped, which a step, having
\* no input constructors, never is) or raises
NodeGenOutcomes == {"run", "skip", "DataRequiredError"}

\* an except branch that never re-raises
SwallowsDataRequiredAlways(grs_this_gen) == TRUE

\* the except branch of the loop: the error is logged and the loop left
\* when the trial already has runs, re-raised when it has none
SwallowsDataRequired(grs_this_gen) == Len(grs_this_gen) # 0

\* a log that takes new runs at its head
RecordRunInFront(runs, gr) == <<gr>> \o runs

\* self._generator_runs.append(gr)
RecordRun(runs, gr) == Append(runs, gr)

\* a loop that never resets the flag
ResetShouldSkipNever(skip, fires, node) == skip

\* node_to_gen_from._should_skip = False, under `if should_transition`
ResetShouldSkip(skip, fires, node) ==
    IF fires THEN [skip EXCEPT ![node] = FALSE] ELSE skip

\* a skip_fit that looks at the position in the multi-trial call only
SkipFitIgnoringTransition(first_generation_in_multi, transitioned) ==
    ~first_generation_in_multi

\* skip_fit as passed to the node's gen
SkipFit(first_generation_in_multi, transitioned) ==
    ~(first_generation_in_multi \/ transitioned)

\* a node that returns None has set its own _should_skip
NodeGenFlag(skip, node, outcome) ==
    IF outcome = "skip" THEN [skip EXCEPT ![node] = TRUE] ELSE skip

\* a loop without the test for None
ReturnedNoneNever(outcome) == FALSE

\* if gr is None: continue
ReturnedNone(outcome) == outcome = "skip"

(***************************************************************************)
(* One iteration of the while loop of _gen_with_multiple_nodes.            *)
(***************************************************************************)
LoopIteration(outcome) ==
    /\ pc = "loop"
    /\ outcome = "run" => Len(generator_runs) < MaxRuns
    /\ outcome = "skip" => ~nodes[curr].is_step
    /\ UNCHANGED <<nodes, experiment, trials, pre>>
    /\ LET st == should_transition_to_next_node(curr, generator_runs,
                                                should_skip, FALSE)
       IN
       IF st.target \notin NodeNames
       THEN /\ Finish(call, "KeyError", "lookup", <<>>)
            /\ UNCHANGED <<curr, generator_runs, model, fitted_model,
                           should_skip, previous_node_name>>
       ELSE
       LET node_to_gen_from == nodes_dict(st.target)
           prev1 == IF st.fires
                       THEN [previous_node_name EXCEPT
                               ![node_to_gen_from] = st.target]
                       ELSE previous_node_name
           skip1 == ResetShouldSkip(should_skip, st.fires, node_to_gen_from)
           mt == MaybeTransition(curr, model, generator_runs, skip1, TRUE)
           skip_fit == SkipFit(call.first_generation_in_multi, mt.moved)
           c == mt.curr
           called == [call EXCEPT !.node_gens = @ \cup
                        {[node |-> nodes[c].node_name, skip_fit |-> skip_fit,
                          trial |-> Len(call.grs_for_multiple_trials) + 1,
                          transitioned |-> mt.moved,
                          pending |-> call.pending,
                          recorded |-> Len(generator_runs)
                                          - Len(pre.generator_runs)]}]
       IN
       /\ previous_node_name' = prev1
       /\ IF mt.exc # Null
          THEN /\ Finish(call, mt.exc, "transition", <<>>)
               /\ should_skip' = skip1
               /\ UNCHANGED <<curr, generator_runs, model, fitted_model>>
          ELSE
          /\ curr' = c
          /\ CASE outcome = "DataRequiredError" ->
                  /\ model' = mt.model
                  /\ should_skip' = skip1
                  /\ UNCHANGED <<generator_runs, fitted_model>>
                  /\ IF SwallowsDataRequired(call.grs_this_gen)
                        THEN /\ pc' = "trial_done"
                             /\ call' = [called EXCEPT !.swallowed = TRUE]
                             /\ UNCHANGED <<result, to_attach>>
                        ELSE Finish(called, "DataRequiredError", "node_gen",
                                    <<>>)
               [] ReturnedNone(outcome) ->
                  /\ should_skip' = NodeGenFlag(skip1, c, outcome)
                  /\ model' = fitted_model[c]
                  /\ pc' = "loop"
                  /\ call' = called
                  /\ UNCHANGED <<generator_runs, fitted_model, result,
                                 to_attach>>
               [] OTHER ->
                  LET gr == [node |-> nodes[c].node_name,
                             id |-> Len(generator_runs) + 1]
                      runs1 == RecordRun(generator_runs, gr)
                      fitted1 == IF skip_fit THEN fitted_model
                                 ELSE [fitted_model EXCEPT
                                         ![c] = nodes[c].node_name]
                      pending1 == call.pending \cup {gr.id}
                      extended ==
                         [called EXCEPT
                            !.pending = pending1,
                            !.caller_pending = IF call.aliased THEN pending1
                                               ELSE @,
                            !.grs_this_gen = Append(@, gr)]
                      cont == ShouldContinueGenForTrial(c, runs1, skip1)
                  IN
                  /\ should_skip' = NodeGenFlag(skip1, c, outcome)
                  /\ fitted_model' = fitted1
                  /\ model' = fitted1[c]
                  /\ generator_runs' = runs1
                  /\ IF cont.exc # Null
                        THEN Finish(extended, cont.exc, "continue_check",
                                    <<>>)
                        ELSE /\ pc' = IF cont.value THEN "loop"
                                      ELSE "trial_done"
                             /\ call' = extended
                             /\ UNCHANGED <<result, to_attach>>
    /\ HeapFrame

\* a gen that lets two runs through
GenRejectsBecauseLooser(grs) == Len(grs) > 2

\* gen refuses the runs of a trial that more than one node contributed to
GenRejects(grs) == Len(grs) > 1

(***************************************************************************)
(* The end of gen: exactly one generator run, or UnsupportedError.         *)
(***************************************************************************)
GenReturn ==
    /\ pc = "trial_done"
    /\ call.kind = "gen"
    /\ UNCHANGED <<nodes, curr, generator_runs, experiment, model,
                   fitted_model, should_skip, previous_node_name, trials,
                   pre>>
    /\ IF GenRejects(call.grs_this_gen)
          THEN Finish(call, "UnsupportedError", "return", <<>>)
       ELSE IF Len(call.grs_this_gen) = 0
          THEN Finish(call, "IndexError", "return", <<>>)
       ELSE Finish(call, Null, Null, <<call.grs_this_gen>>)
    /\ HeapFrame

\* a per-trial loop given a fresh copy of the caller's map
NextTrialPendingCopied(c) == c.passed_pending

\* the pending map the next per-trial loop is passed: the one object the
\* call made at its start
NextTrialPending(c) == c.pending

(***************************************************************************)
(* The for loop of gen_for_multiple_trials_with_multiple_models after a    *)
(* per-trial loop returned: record its runs and either enter the loop of   *)
(* the next trial or return.                                               *)
(***************************************************************************)

MultiNext ==
    /\ pc = "trial_done"
    /\ call.kind = "multi"
    /\ UNCHANGED <<nodes, generator_runs, experiment, fitted_model,
                   should_skip, previous_node_name, trials, pre>>
    /\ LET grs == Append(call.grs_for_multiple_trials, call.grs_this_gen)
           en == EnterTrial(call.arms_per_node, curr, model, generator_runs,
                            should_skip)
       IN
       IF Len(grs) < call.num_trials
          THEN /\ curr' = en.curr
               /\ model' = en.model
               /\ IF en.exc # Null
                     THEN Finish(call, en.exc, "next_entry", <<>>)
                     ELSE /\ pc' = "loop"
                          /\ call' = [call EXCEPT
                                        !.grs_for_multiple_trials = grs,
                                        !.grs_this_gen = <<>>,
                                        !.pending = NextTrialPending(call),
                                        !.swallowed = FALSE,
                                        !.first_generation_in_multi = FALSE]
                          /\ UNCHANGED <<result, to_attach>>
          ELSE /\ Finish(call, Null, Null, grs)
               /\ UNCHANGED <<curr, model>>
    /\ HeapFrame

(***************************************************************************)
(* current_generator_run_limit                                             *)
(***************************************************************************)
CurrentGeneratorRunLimit ==
    /\ pc = "idle"
    /\ result = NoResult
    /\ pre' = Snapshot
    /\ UNCHANGED <<nodes, generator_runs, experiment, fitted_model,
                   should_skip, previous_node_name, trials, call, pc,
                   to_attach>>
    /\ LET mt == MaybeTransition(curr, model, generator_runs, should_skip,
                                 FALSE)
       IN
       IF mt.exc = "GenerationStrategyCompleted"
          THEN /\ result' = [NoResult EXCEPT !.op = "limit",
                                             !.limit = <<0, TRUE>>]
               /\ UNCHANGED <<curr, model>>
       ELSE IF mt.exc # Null
          THEN /\ result' = [NoResult EXCEPT !.op = "limit", !.exc = mt.exc]
               /\ UNCHANGED <<curr, model>>
       ELSE /\ curr' = mt.curr
            /\ model' = mt.model
            /\ result' = [NoResult EXCEPT
                            !.op = "limit",
                            !.answer = [exc |-> Null, value |-> mt.moved],
                            !.limit = <<new_trial_limit(mt.curr), FALSE>>]
    /\ HeapFrame

(***************************************************************************)
(* The caller and the experiment: a returned list of generator runs        *)
(* becomes a trial; trials finish or fail.  result and pre describe the    *)
(* call that has just finished; they are dropped once the experiment moves *)
(* or the caller goes on to its next call.                                 *)
(***************************************************************************)
AttachTrial ==
    /\ pc = "idle"
    /\ to_attach # <<>>
    /\ trials' = Append(trials,
                    [nodes |-> {gr.node : gr \in Range(Head(to_attach))},
                     arms |-> {gr.id : gr \in Range(Head(to_attach))},
                     status |-> RUNNING])
    /\ to_attach' = Tail(to_attach)
    /\ result' = NoResult
    /\ pre' = NoSnapshot
    /\ UNCHANGED <<nodes, curr, generator_runs, experiment, model,
                   fitted_model, should_skip, previous_node_name, pc, call>>
    /\ HeapFrame

SetTrialStatus(t, status) ==
    /\ pc = "idle"
    /\ t \in 1..Len(trials)
    /\ trials[t].status = RUNNING
    /\ trials' = [trials EXCEPT ![t].status = status]
    /\ result' = NoResult
    /\ pre' = NoSnapshot
    /\ UNCHANGED <<nodes, curr, generator_runs, experiment, model,
                   fitted_model, should_skip, previous_node_name, pc, call,
                   to_attach>>
    /\ HeapFrame

\* the caller is done with the outcome of its last call
DiscardResult ==
    /\ pc = "idle"
    /\ result # NoResult
    /\ result' = NoResult
    /\ pre' = NoSnapshot
    /\ UNCHANGED <<nodes, curr, generator_runs, experiment, model,
                   fitted_model, should_skip, previous_node_name, trials,
                   pc, call, to_attach>>
    /\ HeapFrame

\* the experiments a caller passes: the first experiment of a strategy is
\* FirstExperiment, later calls pass any experiment
ExperimentInputs ==
    IF experiment = Null THEN {FirstExperiment} ELSE ExperimentNames

Next ==
    \/ \E e \in ExperimentInputs, P \in PendingInputs : Gen(e, P)
    \/ \E e \in ExperimentInputs, P \in PendingInputs,
          n \in 0..MaxNumTrials, apn \in ArmsPerNodeInputs :
          GenMulti(e, P, n, apn)
    \/ \E outcome \in NodeGenOutcomes : LoopIteration(outcome)
    \/ GenReturn
    \/ MultiNext
    \/ CurrentGeneratorRunLimit
    \/ AttachTrial
    \/ \E t \in 1..Len(trials), status \in {COMPLETED, FAILED} :
          SetTrialStatus(t, status)
    \/ DiscardResult

Spec == Init /\ [][Next]_vars

(***************************************************************************)
(* Construction.  GenerationStrategy(steps=..., nodes=...) is modelled by  *)
(* the operator GenerationStrategyInit over its two list arguments; an     *)
(* argument left at None is NotGiven.  A list element is a GenerationStep  *)
(* input (a record with num_trials) or a GenerationNode.                   *)
(***************************************************************************)
MaxListLen == 2

NotGiven == [given |-> FALSE, list |-> <<>>]

Given(l) == [given |-> TRUE, list |-> l]

IsGenerationStep(x) == "num_trials" \in DOMAIN x

\* is_node_based, evaluated on the list the constructor stored in _nodes
IsNodeBasedList(l) == \A i \in 1..Len(l) : ~IsGenerationStep(l[i])

ExactlyOneGivenOrBoth(stepsArg, nodesArg) == stepsArg.given \/ nodesArg.given

\* (steps is None) ^ (nodes is None)
ExactlyOneGiven(stepsArg, nodesArg) == (~stepsArg.given) # (~nodesArg.given)

\* the num_trials check of one step; idx counts from 0
NumTrialsInvalid(step, idx, nSteps) ==
    IF step.num_trials = -1 /\ Len(step.completion_criteria) < 1
       THEN idx < nSteps - 1
       ELSE step.num_trials < 1 /\ step.num_trials # -1

MaxParallelismInvalidNever(step) == FALSE

MaxParallelismInvalid(step) ==
    step.has_max_parallelism /\ step.max_parallelism < 1

\* a constructor that leaves _curr unset
ConstructedWithoutCurr(ns) == [exc |-> Null, nodes |-> ns, curr |-> 0]

\* the constructor returns: _nodes is ns and _curr its first node
Constructed(ns) == [exc |-> Null, nodes |-> ns, curr |-> 1]

\* the constructor raises
Refused(exc) == [exc |-> exc, nodes |-> <<>>, curr |-> 0]

\* _validate_and_set_step_sequence behind its step_based_gs_only guard
ValidateAndSetStepSequence(steps) ==
    IF IsNodeBasedList(steps)
       THEN Refused("UnsupportedError")
       ELSE IF \E i \in 1..Len(steps) :
                  \/ NumTrialsInvalid(steps[i], i - 1, Len(steps))
                  \/ MaxParallelismInvalid(steps[i])
               THEN Refused("UserInputError")
               ELSE Constructed(SetStepSequence(steps))

DuplicateNamesNever(l) == FALSE

DuplicateNames(l) ==
    \E i, j \in 1..Len(l) : i < j /\ l[i].node_name = l[j].node_name

\* node.transition_edges[target]: the node's criteria naming target
EdgeCriteria(node, target) ==
    SelectSeq(node.transition_criteria, LAMBDA tc : tc.transition_to = target)

\* the keys of node.transition_edges
EdgeKeys(node) == {tc.transition_to : tc \in Range(node.transition_criteria)}

NullTargetInvalid(tcs, next_node) ==
    /\ next_node = Null
    /\ \E tc \in Range(tcs) : tc.cls # "MaxGenerationParallelism"

UnknownTargetNever(node_names, next_node) == FALSE

UnknownTarget(node_names, next_node) ==
    next_node # Null /\ next_node \notin node_names

EdgeDisagreesNever(tcs, next_node) == FALSE

EdgeDisagrees(tcs, next_node) ==
    /\ next_node # Null
    /\ Cardinality({tc.continue_trial_generation : tc \in Range(tcs)}) > 1

ValidateAndSetNodeGraph(l) ==
    LET node_names == {l[i].node_name : i \in 1..Len(l)} IN
    IF DuplicateNames(l)
       THEN Refused("GenerationStrategyMisconfiguredException")
       ELSE IF \E i \in 1..Len(l) : \E next_node \in EdgeKeys(l[i]) :
                  LET tcs == EdgeCriteria(l[i], next_node) IN
                  \/ NullTargetInvalid(tcs, next_node)
                  \/ UnknownTarget(node_names, next_node)
                  \/ EdgeDisagrees(tcs, next_node)
               THEN Refused("GenerationStrategyMisconfiguredException")
               ELSE IF l = <<>>
                       THEN Refused("IndexError")
                       ELSE Constructed(l)

GenerationStrategyInit(stepsArg, nodesArg) ==
    IF ~ExactlyOneGiven(stepsArg, nodesArg)
       THEN Refused("GenerationStrategyMisconfiguredException")
       ELSE LET ns == IF ~stepsArg.given THEN nodesArg.list
                                         ELSE stepsArg.list IN
            IF stepsArg.given /\ \A i \in 1..Len(stepsArg.list) :
                                    IsGenerationStep(stepsArg.list[i])
               THEN ValidateAndSetStepSequence(ns)
               ELSE IF nodesArg.given /\ IsNodeBasedList(ns)
                       THEN ValidateAndSetNodeGraph(nodesArg.list)
                       ELSE Refused("GenerationStrategyMisconfiguredException")

\* the arguments explored
StepInputs ==
    {Step(1, 0, FALSE, 0), Step(-1, 0, FALSE, 0), Step(0, 0, FALSE, 0),
     Step(-2, 0, FALSE, 0), Step(1, 0, TRUE, 0), Step(1, 0, TRUE, 1),
     [Step(-1, 0, FALSE, 0) EXCEPT
         !.completion_criteria = <<MinTrials(1, {COMPLETED}, Null, TRUE)>>]}

CriteriaInputs ==
    {<<>>,
     <<AutoTransitionAfterGen("n2", TRUE)>>,
     <<MinTrials(1, {RUNNING, COMPLETED}, "n1", TRUE)>>,
     <<MinTrials(1, {RUNNING, COMPLETED}, "n3", TRUE)>>,
     <<MinTrials(1, {RUNNING, COMPLETED}, Null, TRUE)>>,
     <<MaxGenerationParallelism(1, Null, TRUE, FALSE)>>,
     <<MinTrials(1, {RUNNING, COMPLETED}, "n2", TRUE),
       AutoTransitionAfterGen("n2", TRUE)>>,
     <<MaxGenerationParallelism(1, Null, TRUE, FALSE),
       [MaxGenerationParallelism(2, Null, TRUE, FALSE) EXCEPT
           !.continue_trial_generation = TRUE]>>}

NodeInputs == {Node(n, tcs) : n \in {"n1", "n2"}, tcs \in CriteriaInputs}

ListsOf(S) == UNION {[1..k -> S] : k \in 0..MaxListLen}

MixedLists == {<<Step(1, 0, FALSE, 0), Node("n1", <<>>)>>}

ListInputs == ListsOf(StepInputs) \cup ListsOf(NodeInputs) \cup MixedLists

ConstructorInputs ==
    {[steps |-> Given(l), nodes |-> NotGiven] : l \in ListInputs}
    \cup {[steps |-> NotGiven, nodes |-> Given(l)] : l \in ListInputs}
    \cup {[steps |-> NotGiven, nodes |-> NotGiven]}
    \cup {[steps |-> Given(s), nodes |-> Given(n)] :
             s \in ListsOf({Step(1, 0, FALSE, 0)}),
             n \in ListsOf({Node("n1", <<>>)})}

\* before the constructor runs: its arguments are in call, no state yet
BeforeConstruction(inputs) ==
    /\ \E a \in inputs :
          call = [NoCall EXCEPT !.kind = "init", !.pending = a]
    /\ pc = "new"
    /\ nodes = <<>>
    /\ curr = 0
    /\ generator_runs = <<>>
    /\ experiment = Null
    /\ model = Null
    /\ fitted_model = <<>>
    /\ should_skip = <<>>
    /\ previous_node_name = <<>>
    /\ trials = <<>>
    /\ result = NoResult
    /\ to_attach = <<>>
    /\ pre = NoSnapshot
    /\ node_ids = <<>>
    /\ other = NoOther

InitConstruct == BeforeConstruction(ConstructorInputs)

Construct ==
    /\ pc = "new"
    /\ LET r == GenerationStrategyInit(call.pending.steps, call.pending.nodes)
       IN /\ result' = [NoResult EXCEPT !.op = "init", !.exc = r.exc]
          /\ nodes' = r.nodes
          /\ curr' = r.curr
          /\ fitted_model' = [i \in 1..Len(r.nodes) |-> Null]
          /\ should_skip' = [i \in 1..Len(r.nodes) |-> FALSE]
          /\ previous_node_name' = [i \in 1..Len(r.nodes) |-> Null]
          /\ node_ids' = [i \in 1..Len(r.nodes) |-> i]
    /\ pc' = "idle"
    /\ UNCHANGED <<generator_runs, experiment, model, trials, call,
                   to_attach, pre, other>>

NextConstruct == Construct

SpecConstruct == InitConstruct /\ [][NextConstruct]_vars

(***************************************************************************)
(* clone_reset.  The nodes are deep-copied: every copy is a new object     *)
(* carrying the attribute values of the node it was copied from.  The      *)
(* copies go through the constructor again, which names and wires steps    *)
(* as it did the first time (the step attributes it validates have not     *)
(* changed since).  Each strategy is used with an experiment of its own.   *)
(***************************************************************************)
ShallowCopyNodeIds(ids) == ids

\* deepcopy(self._nodes): the identities of the new objects
DeepCopyNodeIds(ids) == [i \in DOMAIN ids |-> Len(ids) + ids[i]]

\* _validate_and_set_step_sequence on steps that are already wired
RewireSteps(steps) ==
    [i \in 1..Len(steps) |->
        [steps[i] EXCEPT
           !.node_name = StepName(i - 1),
           !.index = i - 1,
           !.transition_criteria =
              [k \in DOMAIN @ |->
                  IF i - 1 < Len(steps)
                        /\ @[k].cls # "MaxGenerationParallelism"
                     THEN [@[k] EXCEPT !.transition_to = StepName(i)]
                     ELSE @[k]]]]

CloneReset ==
    /\ pc = "idle"
    /\ result = NoResult
    /\ ~other.exists
    /\ LET r == IF is_node_based
                   THEN ValidateAndSetNodeGraph(nodes)
                   ELSE Constructed(RewireSteps(nodes))
       IN /\ result' = [NoResult EXCEPT !.op = "clone_reset",
                                        !.exc = r.exc]
          /\ other' =
                IF r.exc # Null
                   THEN other
                   ELSE [exists |-> TRUE, is |-> "clone",
                         nodes |-> r.nodes,
                         node_ids |-> DeepCopyNodeIds(node_ids),
                         curr |-> r.curr, generator_runs |-> <<>>,
                         experiment |-> Null, model |-> Null,
                         fitted_model |-> fitted_model,
                         should_skip |-> should_skip,
                         previous_node_name |-> previous_node_name,
                         trials |-> <<>>, to_attach |-> <<>>]
    /\ UNCHANGED <<nodes, curr, generator_runs, experiment, model,
                   fitted_model, should_skip, previous_node_name, trials,
                   pc, call, to_attach, pre, node_ids>>

\* the caller turns to the other strategy: from here on the operations
\* apply to the clone and the original is the strategy left alone
Swap ==
    /\ pc = "idle"
    /\ result = NoResult
    /\ other.exists
    /\ other.is = "clone"
    /\ nodes' = other.nodes
    /\ node_ids' = other.node_ids
    /\ curr' = other.curr
    /\ generator_runs' = other.generator_runs
    /\ experiment' = other.experiment
    /\ model' = other.model
    /\ fitted_model' = other.fitted_model
    /\ should_skip' = other.should_skip
    /\ previous_node_name' = other.previous_node_name
    /\ trials' = other.trials
    /\ to_attach' = other.to_attach
    /\ other' = [exists |-> TRUE, is |-> "original", nodes |-> nodes,
                 node_ids |-> node_ids, curr |-> curr,
                 generator_runs |-> generator_runs,
                 experiment |-> experiment, model |-> model,
                 fitted_model |-> fitted_model,
                 should_skip |-> should_skip,
                 previous_node_name |-> previous_node_name,
                 trials |-> trials, to_attach |-> to_attach]
    /\ pre' = NoSnapshot
    /\ call' = NoCall
    /\ UNCHANGED <<pc, result>>

\* the strategies cloned: step-based and node-based
InitClone == Init /\ nodes \in {StepsAB, NodesBatch, NodesParallel}

NextClone ==
    \/ Gen(FirstExperiment, [isNone |-> TRUE, arms |-> {}])
    \/ \E outcome \in {"run", "skip"} : LoopIteration(outcome)
    \/ GenReturn
    \/ AttachTrial
    \/ \E t \in 1..Len(trials) : SetTrialStatus(t, COMPLETED)
    \/ DiscardResult
    \/ CloneReset
    \/ Swap

SpecClone == InitClone /\ [][NextClone]_vars

(***************************************************************************)
(* Evaluating the transition check between generation calls: the current   *)
(* node's should_transition_to_next_node(raise_data_required_error=False), *)
(* called directly or through _should_continue_gen_for_trial.  Each is     *)
(* given as what the caller gets back and what the call leaves in _curr    *)
(* and _model.                                                             *)
(***************************************************************************)
ShouldTransitionCall(c, mdl, runs, skip) ==
    [answer |-> should_transition_to_next_node(c, runs, skip, FALSE),
     curr |-> c, model |-> mdl]

ShouldContinueCall(c, mdl, runs, skip) ==
    [answer |-> ShouldContinueGenForTrial(c, runs, skip),
     curr |-> c, model |-> mdl]

\* one evaluation; r is what it returns and leaves
Evaluate(op, r) ==
    /\ pc = "idle"
    /\ result.op \in {"none", "should_transition", "should_continue"}
    /\ result' = [NoResult EXCEPT !.op = op, !.answer = r.answer]
    /\ curr' = r.curr
    /\ model' = r.model
    /\ pre' = NoSnapshot
    /\ UNCHANGED <<nodes, generator_runs, experiment, fitted_model,
                   should_skip, previous_node_name, trials, call, pc,
                   to_attach>>
    /\ HeapFrame

EvaluateShouldTransition ==
    Evaluate("should_transition",
             ShouldTransitionCall(curr, model, generator_runs, should_skip))

EvaluateShouldContinue ==
    Evaluate("should_continue",
             ShouldContinueCall(curr, model, generator_runs, should_skip))

NextEvaluate ==
    \/ Gen(FirstExperiment, [isNone |-> TRUE, arms |-> {}])
    \/ \E outcome \in NodeGenOutcomes : LoopIteration(outcome)
    \/ GenReturn
    \/ AttachTrial
    \/ \E t \in 1..Len(trials) : SetTrialStatus(t, COMPLETED)
    \/ DiscardResult
    \/ EvaluateShouldTransition
    \/ EvaluateShouldContinue

SpecEvaluate == Init /\ [][NextEvaluate]_vars

(***************************************************************************)
(* A strategy from its construction on: the constructor runs on arguments  *)
(* it accepts, then generation calls, limit queries and trial updates      *)
(* follow.                                                                 *)
(***************************************************************************)
AcceptedInputs ==
    {[steps |-> Given(<<Step(2, 0, FALSE, 0), Step(-1, 0, FALSE, 0)>>),
      nodes |-> NotGiven],
     [steps |-> Given(<<Step(1, 1, FALSE, 0), Step(1, 0, FALSE, 0)>>),
      nodes |-> NotGiven],
     [steps |-> NotGiven, nodes |-> Given(NodesBatch)],
     [steps |-> NotGiven, nodes |-> Given(NodesParallel)],
     [steps |-> NotGiven, nodes |-> Given(NodesSolo)]}

InitLife == BeforeConstruction(AcceptedInputs)

NextLife ==
    \/ Construct
    \/ Gen(FirstExperiment, [isNone |-> TRUE, arms |-> {}])
    \/ \E outcome \in NodeGenOutcomes : LoopIteration(outcome)
    \/ GenReturn
    \/ CurrentGeneratorRunLimit
    \/ AttachTrial
    \/ \E t \in 1..Len(trials), status \in {COMPLETED, FAILED} :
          SetTrialStatus(t, status)
    \/ DiscardResult

SpecLife == InitLife /\ [][NextLife]_vars

(***************************************************************************)
(* Properties.                                                             *)
(***************************************************************************)
\* the generator runs the last call appended to the log
AppendedByCall ==
    SubSeq(generator_runs, Len(pre.generator_runs) + 1, Len(generator_runs))

GenFinished == pc = "idle" /\ result.op = "gen"

MultiFinished == pc = "idle" /\ result.op = "multi"

\* C1: a gen call that returns normally returns exactly one GeneratorRun,
\* the only run its per-trial loop produced; when the loop produced more
\* than one run the call has raised UnsupportedError.
C1_GenReturnsExactlyOneRun ==
    GenFinished =>
       /\ result.exc = Null =>
             /\ Len(result.runs) = 1
             /\ Len(result.runs[1]) = 1
             /\ AppendedByCall = result.runs[1]
       /\ Len(AppendedByCall) > 1 => result.exc = "UnsupportedError"

C1_Witness ==
    /\ GenFinished
    /\ result.exc = "UnsupportedError"
    /\ Len(AppendedByCall) = 2
    /\ AppendedByCall[1].node # AppendedByCall[2].node

\* a generation call (of either entry point) has just ended
CallFinished == pc = "idle" /\ result.op \in {"gen", "multi"}

\* the experiment setter accepted the experiment the finished call passed
BindingAccepted ==
    pre.experiment = Null \/ result.experiment = pre.experiment

\* C2: when the current node's gen raises DataRequiredError in the per-trial
\* loop, the error reaches the caller only if that loop has produced no
\* generator run; with at least one run produced the error is swallowed, the
\* loop stops and the runs produced so far are what the loop returns.
C2_DataRequiredSwallowedAfterProgress ==
    /\ (pc = "trial_done" /\ call.swallowed) =>
          /\ Len(call.grs_this_gen) >= 1
          /\ call.grs_this_gen =
                SubSeq(generator_runs,
                       Len(generator_runs) - Len(call.grs_this_gen) + 1,
                       Len(generator_runs))
    /\ CallFinished =>
          /\ (result.exc = "DataRequiredError" /\ result.at = "node_gen") =>
                result.trial_runs = 0 /\ ~result.swallowed
          /\ result.swallowed =>
                /\ result.trial_runs >= 1
                /\ result.exc \in {Null, "UnsupportedError"}
                /\ result.exc = Null =>
                      Len(result.runs[Len(result.runs)]) = result.trial_runs

C2_Witness ==
    /\ GenFinished
    /\ result.swallowed
    /\ result.exc = Null
    /\ Len(result.runs) = 1
    /\ Len(result.runs[1]) = 1
    /\ Len(nodes) = 2
    /\ result.runs[1][1].node = nodes[1].node_name
    /\ curr = 2

\* C3 as stated: whenever optimization_complete holds when a generation call
\* starts, the call raises GenerationStrategyCompleted, invokes no node's
\* gen, appends nothing to _generator_runs and leaves _curr unchanged.
C3_Original ==
    (CallFinished /\ pre.complete) =>
       /\ result.exc = "GenerationStrategyCompleted"
       /\ ~result.gen_invoked
       /\ generator_runs = pre.generator_runs
       /\ curr = pre.curr

\* C3 amended: whenever optimization_complete holds when a generation call
\* starts and the experiment setter accepts the experiment passed, the call
\* raises GenerationStrategyCompleted, invokes no node's gen, appends nothing
\* to _generator_runs and leaves _curr unchanged; with an experiment of a
\* different name the call raises the setter's error instead, equally
\* without generating.
C3_CompletedStrategyRaises ==
    (CallFinished /\ pre.complete) =>
       /\ result.exc = IF BindingAccepted THEN "GenerationStrategyCompleted"
                       ELSE SetterError
       /\ ~result.gen_invoked
       /\ generator_runs = pre.generator_runs
       /\ curr = pre.curr

C3_Witness ==
    /\ CallFinished
    /\ pre.complete
    /\ BindingAccepted
    /\ result.exc = "GenerationStrategyCompleted"
    /\ result.at = "entry"
    /\ Len(generator_runs) >= 2

\* C4: an attempted transition past the final node (the current node is the
\* last of the list, its transition check fires and names no target) raises
\* GenerationStrategyCompleted, which current_generator_run_limit reports as
\* (0, true), whether or not the other nodes are completed.
C4_PastFinalNodeRaisesCompleted ==
    (pc = "idle" /\ result.op = "limit"
       /\ pre.curr = Len(nodes) /\ pre.check.fires
       /\ pre.check.target = Null) =>
       /\ result.exc = Null
       /\ result.limit = <<0, TRUE>>

(***************************************************************************)
(* The two-step strategy A (num_trials = 2), B (num_trials = -1) driven in *)
(* lockstep: every gen call returns a generator run, which becomes a trial *)
(* on the experiment before the next call; trials complete or fail.        *)
(***************************************************************************)
InitLockstep == Init /\ nodes = StepsAB

NextLockstep ==
    \/ /\ to_attach = <<>>
       /\ \E P \in PendingInputs : Gen(FirstExperiment, P)
    \/ LoopIteration("run")
    \/ GenReturn
    \/ AttachTrial
    \/ \E t \in 1..Len(trials), status \in {COMPLETED, FAILED} :
          SetTrialStatus(t, status)

SpecLockstep == InitLockstep /\ [][NextLockstep]_vars

\* the number of gen calls made when a gen call has just returned (each
\* returned one run)
CallNumber == Len(generator_runs)

\* every trial made so far still counts towards its step
NoTrialFailed == \A t \in 1..Len(trials) : trials[t].status # FAILED

\* C5 as stated: three consecutive gen calls, each run becoming a trial
\* that stays counted, generate from A, A, B and current_step_index reads
\* 0, 0, 1 immediately before the respective calls.
C5_Original ==
    (GenFinished /\ result.exc = Null /\ CallNumber <= 3
       /\ NoTrialFailed) =>
       /\ result.runs[1][1].node = StepName(<<0, 0, 1>>[CallNumber])
       /\ pre.step_index = [exc |-> Null, value |-> <<0, 0, 1>>[CallNumber]]

\* C5 amended: three consecutive gen calls, each run becoming a trial that
\* stays counted, generate from A, A, B in that order; current_step_index
\* reads 0, 0, 0 immediately before the
\* respective calls and 0, 0, 1 immediately after them (the move to B is
\* made inside the third call).
C5_StepIndexFollowsCalls ==
    (GenFinished /\ CallNumber <= 3 /\ NoTrialFailed) =>
       /\ result.exc = Null
       /\ Len(result.runs) = 1 /\ Len(result.runs[1]) = 1
       /\ result.runs[1][1].node = StepName(<<0, 0, 1>>[CallNumber])
       /\ pre.step_index = [exc |-> Null, value |-> 0]
       /\ current_step_index =
             [exc |-> Null, value |-> <<0, 0, 1>>[CallNumber]]

C5_Witness ==
    /\ GenFinished
    /\ CallNumber = 3
    /\ Len(trials) = 2
    /\ NoTrialFailed
    /\ result.runs[1][1].node = StepName(1)
    /\ pre.step_index.value = 0
    /\ current_step_index.value = 1

\* C6: the first experiment passed to a generation call is bound; a later
\* call with an experiment of the same name passes the binding and leaves
\* that experiment bound; a later call with an experiment of a different
\* name raises at the binding, before any transition or generation, and the
\* bound experiment, _curr and _generator_runs stay as they were.
C6_ExperimentBinding ==
    CallFinished =>
       /\ pre.experiment = Null =>
             result.at # "setter" /\ experiment = result.experiment
       /\ (pre.experiment # Null /\ result.experiment = pre.experiment) =>
             result.at # "setter" /\ experiment = pre.experiment
       /\ (pre.experiment # Null /\ result.experiment # pre.experiment) =>
             /\ result.exc # Null
             /\ result.at = "setter"
             /\ ~result.gen_invoked
             /\ experiment = pre.experiment
             /\ curr = pre.curr
             /\ generator_runs = pre.generator_runs
             /\ model = pre.model

C6_Witness ==
    /\ CallFinished
    /\ pre.experiment = FirstExperiment
    /\ result.experiment # FirstExperiment
    /\ result.at = "setter"
    /\ experiment = FirstExperiment
    /\ ~pre.complete
    /\ pre.generator_runs # <<>>

\* a generation call was refused by the experiment setter
RebindRefused == CallFinished /\ result.at = "setter"

\* C7 as stated: re-binding a strategy to an experiment with a different
\* name fails with UnsupportedError.
C7_Original == RebindRefused => result.exc = "UnsupportedError"

\* C7 amended: re-binding a strategy to an experiment with a different name
\* fails with ValueError, not with the UnsupportedError that a step-only
\* accessor on a node-based strategy or a gen() with more than one run
\* raises.
C7_RebindRaisesValueError ==
    /\ RebindRefused => result.exc = "ValueError"
    /\ (GenFinished /\ result.at = "return" /\ result.trial_runs > 1) =>
          result.exc = "UnsupportedError"

C7_Witness ==
    /\ MultiFinished
    /\ result.at = "setter"
    /\ result.exc = "ValueError"
    /\ pre.experiment # Null
    /\ result.experiment \notin {Null, pre.experiment}

\* C8: a generation call that ends by raising leaves _curr,
\* _generator_runs, _model and each node's cached fitted model and
\* _should_skip flag as they were before the call.
C8_NoPartialStateOnRaise ==
    (CallFinished /\ result.exc # Null) =>
       /\ curr = pre.curr
       /\ generator_runs = pre.generator_runs
       /\ model = pre.model
       /\ fitted_model = pre.fitted_model
       /\ should_skip = pre.should_skip

\* C9: _generator_runs is an append-only log: every step leaves the earlier
\* log as a prefix of the later one, runs stand in production order, and
\* last_generator_run is the last element (None iff the log is empty).
C9_AppendOnlyLog ==
    [][/\ IsPrefix(generator_runs, generator_runs')
       /\ \A i \in 1..Len(generator_runs') : generator_runs'[i].id = i
       /\ (generator_runs' = <<>>) <=> (last_generator_run' = NoGeneratorRun)
       /\ generator_runs' # <<>> =>
             last_generator_run' = generator_runs'[Len(generator_runs')]
       /\ (pc' = "idle" /\ result'.op \in {"gen", "multi"}
             /\ result'.exc = Null) =>
             Flatten(result'.runs) =
                SubSeq(generator_runs', Len(pre'.generator_runs) + 1,
                       Len(generator_runs'))]_vars

C9_Witness ==
    /\ MultiFinished
    /\ result.exc = Null
    /\ Len(result.runs) = 2
    /\ pre.generator_runs # <<>>
    /\ Len(generator_runs) = Len(pre.generator_runs) + 2
    /\ last_generator_run = result.runs[2][1]

\* C10: gen_for_multiple_trials_with_multiple_models, when it raises
\* nothing, returns exactly T inner lists, where with L the current node's
\* new_trial_limit at call start (the experiment's trials do not change
\* during the call) T = max(num_trials, 1) if L = -1 and
\* T = max(min(num_trials, L), 1) otherwise.
C10_MultiReturnsClampedTrials ==
    (MultiFinished /\ result.exc = Null) =>
       LET L == new_trial_limit(pre.curr)
           n == result.requested
           T == IF L = -1 THEN (IF n >= 1 THEN n ELSE 1)
                ELSE IF n <= L THEN (IF n >= 1 THEN n ELSE 1)
                ELSE (IF L >= 1 THEN L ELSE 1)
       IN  /\ Len(result.runs) = T
           /\ L >= 1 => Len(result.runs) <= L
           /\ (L = 0 \/ n <= 0) => Len(result.runs) = 1

C10_Witness ==
    /\ MultiFinished
    /\ result.exc = Null
    /\ result.requested = 2
    /\ new_trial_limit(pre.curr) = 1
    /\ Len(result.runs) = 1

\* the node gen invocations of the call in progress or just finished
NodeGensOfCall == IF pc = "idle" THEN result.node_gens ELSE call.node_gens

\* the arms of the first k runs the call recorded
ArmsRecorded(k) == {Len(pre.generator_runs) + j : j \in 1..k}

\* C11: one pending map is shared by all per-trial loops of a call: every
\* node gen is passed a map holding the arms of every run the call recorded
\* before it, in earlier trials and from earlier nodes of the same trial.
C11_PendingMapShared ==
    \A g \in NodeGensOfCall : ArmsRecorded(g.recorded) \subseteq g.pending

C11_Witness ==
    /\ MultiFinished
    /\ result.exc = Null
    /\ Len(result.runs) = 2
    /\ \E g \in result.node_gens :
          /\ g.trial = 2
          /\ g.recorded >= 1
          /\ result.runs[1][1].id \in g.pending

\* C12: no generation entry point mutates the pending_observations map the
\* caller supplied: when the call has returned or raised the map has the
\* content it had before the call.
C12_CallerPendingUntouched == CallFinished => result.caller_pending_intact

\* C13: current_generator_run_limit returns (0, True) exactly when the
\* attempted transition raises GenerationStrategyCompleted, _curr then being
\* unchanged, and otherwise returns (L, False) with L the new_trial_limit of
\* the node that is current after the attempted transition.
C13_RunLimit ==
    (pc = "idle" /\ result.op = "limit") =>
       /\ result.exc = Null
       /\ IF pre.check.fires /\ pre.complete
             THEN result.limit = <<0, TRUE>> /\ curr = pre.curr
             ELSE result.limit = <<new_trial_limit(curr), FALSE>>

\* C15: optimization_complete, as read when a call starts, is true exactly
\* when every node reports is_completed; a strategy with a single node whose
\* criteria never fire is never complete.
C15_CompleteIffAllNodesCompleted ==
    /\ pre # NoSnapshot =>
          (pre.complete <=>
             \A i \in NodeIdx :
                is_completed(i, pre.generator_runs, pre.should_skip))
    /\ (Len(nodes) = 1 /\ nodes[1].transition_criteria = <<>>) =>
          /\ ~optimization_complete(generator_runs, should_skip)
          /\ result.exc # "GenerationStrategyCompleted"
          /\ result.limit # <<0, TRUE>>

C15_Witness ==
    /\ pre # NoSnapshot
    /\ ~pre.complete
    /\ Len(nodes) = 2
    /\ is_completed(1, pre.generator_runs, pre.should_skip)
    /\ ~is_completed(2, pre.generator_runs, pre.should_skip)

(***************************************************************************)
(* Construction claims, checked under SpecConstruct.                       *)
(***************************************************************************)
\* the constructor has run on the arguments kept in call.pending
Constructing == pc = "idle" /\ result.op = "init"

StepsArg == call.pending.steps

NodesArg == call.pending.nodes

Misconfigured == "GenerationStrategyMisconfiguredException"

\* C16: constructing with both steps and nodes, or with neither, fails with
\* GenerationStrategyMisconfiguredException; a construction that succeeds
\* was given exactly one of the two.
C16_ExactlyOneOfStepsNodes ==
    Constructing =>
       /\ (StepsArg.given /\ NodesArg.given) => result.exc = Misconfigured
       /\ (~StepsArg.given /\ ~NodesArg.given) => result.exc = Misconfigured
       /\ result.exc = Null =>
             \/ StepsArg.given /\ ~NodesArg.given
             \/ ~StepsArg.given /\ NodesArg.given

C16_Witness ==
    /\ Constructing
    /\ StepsArg.given /\ NodesArg.given
    /\ Len(StepsArg.list) = 1 /\ Len(NodesArg.list) = 1
    /\ result.exc = Misconfigured

\* the nodes argument alone was given and holds GenerationNodes only
NodeBasedArgs ==
    /\ ~StepsArg.given
    /\ NodesArg.given
    /\ \A i \in 1..Len(NodesArg.list) : ~IsGenerationStep(NodesArg.list[i])

\* C17: a node list with two nodes of the same node_name is refused with
\* GenerationStrategyMisconfiguredException; in every constructed strategy,
\* node-based or step-based, the node names are pairwise distinct and
\* nodes_dict maps every node's name to that node.
C17_NodeNamesDistinct ==
    Constructing =>
       /\ (/\ NodeBasedArgs
           /\ \E i, j \in 1..Len(NodesArg.list) :
                 /\ i # j
                 /\ NodesArg.list[i].node_name = NodesArg.list[j].node_name)
             => result.exc = Misconfigured
       /\ result.exc = Null =>
             /\ \A i, j \in NodeIdx :
                   nodes[i].node_name = nodes[j].node_name => i = j
             /\ Cardinality(NodeNames) = Len(nodes)
             /\ \A i \in NodeIdx : nodes_dict(nodes[i].node_name) = i

C17_Witness ==
    /\ Constructing
    /\ NodeBasedArgs
    /\ Len(NodesArg.list) = 2
    /\ NodesArg.list[1].node_name = NodesArg.list[2].node_name
    /\ NodesArg.list[1].transition_criteria = <<>>
    /\ NodesArg.list[2].transition_criteria = <<>>
    /\ result.exc = Misconfigured

\* the steps argument alone was given and holds one GenerationStep or more
StepBasedArgs ==
    /\ StepsArg.given
    /\ ~NodesArg.given
    /\ Len(StepsArg.list) >= 1
    /\ \A i \in 1..Len(StepsArg.list) : IsGenerationStep(StepsArg.list[i])

\* C18: constructing a step-based strategy fails with UserInputError when
\* some step has num_trials neither -1 nor >= 1, or max_parallelism set
\* below 1, or is not the last step and has num_trials = -1 without
\* completion criteria; a sequence violating none of these is accepted.
C18_StepSequenceValidation ==
    (Constructing /\ StepBasedArgs) =>
       LET steps == StepsArg.list IN
       IF \E i \in 1..Len(steps) :
             \/ steps[i].num_trials # -1 /\ ~(steps[i].num_trials >= 1)
             \/ steps[i].has_max_parallelism /\ steps[i].max_parallelism < 1
             \/ /\ i < Len(steps)
                /\ steps[i].num_trials = -1
                /\ steps[i].completion_criteria = <<>>
          THEN result.exc = "UserInputError"
          ELSE /\ result.exc = Null
               /\ Len(nodes) = Len(steps)
               /\ \A i \in NodeIdx : nodes[i].is_step

C18_Witness ==
    /\ Constructing
    /\ StepBasedArgs
    /\ Len(StepsArg.list) = 2
    /\ StepsArg.list[1].num_trials = -1
    /\ StepsArg.list[1].completion_criteria # <<>>
    /\ StepsArg.list[2].num_trials = -1
    /\ StepsArg.list[2].completion_criteria = <<>>
    /\ result.exc = Null
    /\ Len(nodes) = 2

\* all criteria declared by the nodes of the nodes argument
CriteriaOfArg(i) == Range(NodesArg.list[i].transition_criteria)

NamesOfArg == {NodesArg.list[i].node_name : i \in 1..Len(NodesArg.list)}

\* C19: constructing a node-based strategy fails with
\* GenerationStrategyMisconfiguredException when a criterion names a
\* transition_to target that is no node of the strategy, or when a
\* criterion that is not a MaxGenerationParallelism has no target; criteria
\* of class MaxGenerationParallelism without a target are accepted.
C19_TransitionTargetsExist ==
    (Constructing /\ NodeBasedArgs) =>
       /\ (\E i \in 1..Len(NodesArg.list) : \E tc \in CriteriaOfArg(i) :
              \/ tc.transition_to # Null /\ tc.transition_to \notin NamesOfArg
              \/ tc.transition_to = Null
                    /\ tc.cls # "MaxGenerationParallelism")
             => result.exc = Misconfigured
       /\ (/\ Len(NodesArg.list) >= 1
           /\ Cardinality(NamesOfArg) = Len(NodesArg.list)
           /\ \A i \in 1..Len(NodesArg.list) : \A tc \in CriteriaOfArg(i) :
                 tc.transition_to = Null /\ tc.cls = "MaxGenerationParallelism")
             => result.exc = Null /\ nodes = NodesArg.list

C19_Witness ==
    /\ Constructing
    /\ NodeBasedArgs
    /\ result.exc = Null
    /\ Len(nodes) = 2
    /\ \E tc \in Range(nodes[2].transition_criteria) :
          tc.cls = "MaxGenerationParallelism" /\ tc.transition_to = Null
    /\ \E tc \in Range(nodes[1].transition_criteria) :
          tc.transition_to = nodes[2].node_name

\* C20: constructing a node-based strategy fails with
\* GenerationStrategyMisconfiguredException when two criteria of one node
\* that name the same transition_to target differ in
\* continue_trial_generation; in every constructed node-based strategy the
\* criteria of one node-to-node edge agree on continue_trial_generation.
C20_EdgeAgreesOnContinue ==
    (Constructing /\ NodeBasedArgs) =>
       /\ (\E i \in 1..Len(NodesArg.list) : \E tc1, tc2 \in CriteriaOfArg(i) :
              /\ tc1.transition_to # Null
              /\ tc1.transition_to = tc2.transition_to
              /\ tc1.continue_trial_generation # tc2.continue_trial_generation)
             => result.exc = Misconfigured
       /\ result.exc = Null =>
             \A i \in NodeIdx :
                \A tc1, tc2 \in Range(nodes[i].transition_criteria) :
                   (tc1.transition_to # Null
                       /\ tc1.transition_to = tc2.transition_to)
                      => tc1.continue_trial_generation
                            = tc2.continue_trial_generation

C20_Witness ==
    /\ Constructing
    /\ NodeBasedArgs
    /\ Len(NodesArg.list) = 2
    /\ NodesArg.list[1].node_name = "n1"
    /\ NodesArg.list[2].node_name = "n2"
    /\ NodesArg.list[2].transition_criteria = <<>>
    /\ Len(NodesArg.list[1].transition_criteria) = 2
    /\ \A tc \in CriteriaOfArg(1) : tc.transition_to = "n2"
    /\ result.exc = Misconfigured

(***************************************************************************)
(* clone_reset, checked under SpecClone.                                   *)
(***************************************************************************)
NamesInOrder(ns) == [i \in 1..Len(ns) |-> ns[i].node_name]

\* C14: clone_reset returns a strategy with the same node names in the same
\* order and the same shape, with no generator runs, no model, no
\* experiment and the first node current; no node object belongs to both
\* strategies and the original is left as it was; afterwards no operation
\* on one of the two changes the other's current node, generator runs,
\* experiment or node state.
C14_CloneResetIsolated ==
    [][/\ (~other.exists /\ other'.exists) =>
             /\ NamesInOrder(other'.nodes) = NamesInOrder(nodes)
             /\ \A i \in NodeIdx : other'.nodes[i].is_step = nodes[i].is_step
             /\ Len(other'.nodes) = Len(nodes)
             /\ other'.generator_runs = <<>>
             /\ other'.model = Null
             /\ other'.experiment = Null
             /\ other'.curr = 1
             /\ Range(other'.node_ids) \cap Range(node_ids') = {}
             /\ UNCHANGED <<nodes, node_ids, curr, generator_runs,
                            experiment, model, fitted_model, should_skip,
                            previous_node_name, trials>>
       /\ (other.exists /\ other'.is = other.is) => other' = other
      ]_vars

C14_Witness ==
    /\ other.exists
    /\ other.is = "original"
    /\ Len(other.generator_runs) >= 1
    /\ other.experiment # Null
    /\ other.curr = 2
    /\ Len(generator_runs) >= 1
    /\ curr = 1
    /\ \E i \in NodeIdx : fitted_model[i] # other.fitted_model[i]

(***************************************************************************)
(* The per-trial loop and the transition step, checked under Spec.         *)
(***************************************************************************)
\* the finished call passed an arms_per_node map lacking a node name
ArmsPerNodeLacksKey ==
    /\ result.arms_per_node.given
    /\ ~(NodeNames \subseteq result.arms_per_node.keys)

\* C21 as stated: a generation call whose arms_per_node lacks a key for some
\* node name raises UserInputError before any transition or node gen and
\* leaves _curr and _generator_runs unchanged; a call without arms_per_node
\* passes the check.
C21_Original ==
    CallFinished =>
       /\ ArmsPerNodeLacksKey =>
             /\ result.exc = "UserInputError"
             /\ ~result.gen_invoked
             /\ curr = pre.curr
             /\ generator_runs = pre.generator_runs
       /\ ~result.arms_per_node.given => result.exc # "UserInputError"

\* C21 amended: the same, for a call whose experiment the setter accepts and
\* which starts on a strategy that is not complete (otherwise the setter's
\* error or GenerationStrategyCompleted is raised first, equally without a
\* transition or a node gen).
C21_ArmsPerNodeValidated ==
    CallFinished =>
       /\ ArmsPerNodeLacksKey =>
             /\ result.exc =
                   IF ~BindingAccepted THEN SetterError
                   ELSE IF pre.complete THEN "GenerationStrategyCompleted"
                   ELSE "UserInputError"
             /\ ~result.gen_invoked
             /\ curr = pre.curr
             /\ generator_runs = pre.generator_runs
       /\ ~result.arms_per_node.given => result.exc # "UserInputError"

C21_Witness ==
    /\ CallFinished
    /\ ArmsPerNodeLacksKey
    /\ BindingAccepted
    /\ ~pre.complete
    /\ pre.generator_runs # <<>>
    /\ result.exc = "UserInputError"
    /\ result.at = "entry"

\* C22: on a node-based strategy current_step_index, model_transitions and
\* _steps raise UnsupportedError in every state; on a step-based strategy
\* model_transitions fails whenever accessed and current_step_index is the
\* list position of the current step.
C22_StepOnlyAccessors ==
    /\ is_node_based =>
          /\ current_step_index.exc = "UnsupportedError"
          /\ model_transitions.exc = "UnsupportedError"
          /\ _steps.exc = "UnsupportedError"
    /\ ~is_node_based =>
          /\ model_transitions.exc = "DeprecationWarning"
          /\ current_step_index.exc = Null
          /\ current_step_index.value = curr - 1
          /\ nodes[curr].index = curr - 1
          /\ _steps.exc = Null

C22_Witness ==
    /\ is_node_based
    /\ curr = 2
    /\ generator_runs # <<>>
    /\ pc = "idle"
    /\ _steps.exc = "UnsupportedError"
    /\ current_step_index.exc = "UnsupportedError"

\* the node _maybe_transition_to_next_node resolves for the answer st of
\* the current node's check: the node named, or the next in the list
ResolvedTarget(st) ==
    IF st.target = Null THEN curr + 1 ELSE nodes_dict(st.target)

\* C24: in _maybe_transition_to_next_node (as run by a limit query), when
\* the current node's check does not fire _curr and _model stay and the
\* result is False; when it fires and the strategy is not complete _curr
\* becomes the node named by the check, or the next node of the list when
\* none is named, _model is cleared and the result is True.
C24_MaybeTransition ==
    [][result'.op = "limit" =>
          LET st == should_transition_to_next_node(curr, generator_runs,
                                                   should_skip, FALSE)
          IN
          /\ ~st.fires =>
                /\ result'.exc = Null
                /\ result'.answer.value = FALSE
                /\ UNCHANGED <<curr, model>>
          /\ (st.fires /\ ~optimization_complete(generator_runs, should_skip))
                => /\ result'.exc = Null
                   /\ result'.answer.value = TRUE
                   /\ curr' \in NodeIdx
                   /\ curr' = ResolvedTarget(st)
                   /\ model' = Null
      ]_vars

\* C24, leaving aside the limit queries that end in an exception
C24_TrueMeansMoved ==
    [][(result'.op = "limit" /\ result'.exc = Null) =>
          LET st == should_transition_to_next_node(curr, generator_runs,
                                                   should_skip, FALSE)
          IN
          /\ ~st.fires =>
                /\ result'.answer.value = FALSE
                /\ UNCHANGED <<curr, model>>
          /\ (st.fires /\ ~optimization_complete(generator_runs, should_skip))
                => /\ result'.answer.value = TRUE
                   /\ st.target # Null => st.target \in NodeNames
                   /\ curr' = ResolvedTarget(st)
                   /\ model' = Null
      ]_vars

(***************************************************************************)
(* Wiring of a step sequence, checked under SpecConstruct.                 *)
(***************************************************************************)
StepBasedConstructed == Constructing /\ StepBasedArgs /\ result.exc = Null

\* C25: after constructing a step-based strategy the transition criteria of
\* the last step have no transition target.
C25_LastStepHasNoTarget ==
    StepBasedConstructed =>
       \A tc \in Range(nodes[Len(nodes)].transition_criteria) :
          tc.transition_to = Null

\* C26: after constructing a step-based strategy with k steps, step i has
\* node_name GenerationStep_i and index i; on every step but the last each
\* criterion that is not a MaxGenerationParallelism has transition_to
\* GenerationStep_(i+1); MaxGenerationParallelism criteria keep the target
\* the step declared.
C26_StepsNamedAndWired ==
    StepBasedConstructed =>
       \A i \in NodeIdx :
          LET declared == StepCriteria(StepsArg.list[i])
              wired == nodes[i].transition_criteria
          IN
          /\ nodes[i].node_name = StepNames[i]
          /\ nodes[i].index = i - 1
          /\ Len(wired) = Len(declared)
          /\ \A k \in 1..Len(wired) :
                IF wired[k].cls = "MaxGenerationParallelism"
                   THEN wired[k] = declared[k]
                   ELSE /\ i < Len(nodes) =>
                              wired[k].transition_to = StepNames[i + 1]
                        /\ [wired[k] EXCEPT !.transition_to = Null]
                              = [declared[k] EXCEPT !.transition_to = Null]

C26_Witness ==
    /\ StepBasedConstructed
    /\ Len(nodes) = 2
    /\ \E k \in 1..Len(nodes[1].transition_criteria) :
          /\ nodes[1].transition_criteria[k].cls = "MaxGenerationParallelism"
          /\ nodes[1].transition_criteria[k].transition_to = Null
    /\ \E k \in 1..Len(nodes[1].transition_criteria) :
          /\ nodes[1].transition_criteria[k].cls = "MinTrials"
          /\ nodes[1].transition_criteria[k].transition_to = "GenerationStep_1"

\* C27: the constructor leaves _curr at the first node of the list; from
\* then on every operation leaves the node list as it is (no node added,
\* removed, renamed or reordered) and leaves _curr at a node of the list.
C27_CurrIsANodeOfTheList ==
    [][IF pc = "new"
          THEN result'.exc = Null =>
                  /\ nodes' # <<>>
                  /\ curr' = 1
          ELSE /\ nodes' = nodes
               /\ curr \in NodeIdx
               /\ curr' \in NodeIdx
      ]_vars

C27_Witness ==
    /\ pc = "idle"
    /\ result.op = "limit"
    /\ Len(nodes) = 2
    /\ curr = 2
    /\ generator_runs # <<>>
    /\ pre.curr = 1

(***************************************************************************)
(* The _should_skip flag in the per-trial loop, explored on a ring of      *)
(* nodes, on a single node and on two nodes sharing every trial.           *)
(***************************************************************************)
InitSkip == InitOf({NodesRing, NodesSolo, NodesLoop})

NextSkip ==
    \/ Gen(FirstExperiment, [isNone |-> TRUE, arms |-> {}])
    \/ \E outcome \in NodeGenOutcomes : LoopIteration(outcome)
    \/ GenReturn
    \/ AttachTrial
    \/ DiscardResult

SpecSkip == InitSkip /\ [][NextSkip]_vars

\* an iteration of the per-trial loop in which the node's gen gave a run:
\* the node that generated is the current node afterwards, and nothing has
\* touched its flag since gen was called
Generated == pc = "loop" /\ generator_runs' # generator_runs

\* C28 as stated: at every iteration of the per-trial loop, whether or not
\* a transition occurs in it, the _should_skip flag of the node that
\* generates is false when that node's gen is called.
C28_Original ==
    [][Generated => ~should_skip'[curr']]_vars

\* C28: in every iteration of the per-trial loop in which a transition
\* occurs, the _should_skip flag of the node that generates has been reset
\* to false before that node's gen is called.
C28_ShouldSkipResetOnTransition ==
    [][Generated /\ curr' # curr => ~should_skip'[curr']]_vars

\* the ring has been left at n1 by a skip (its first run is n2's) and has
\* come round to n1, which has generated with its flag reset
C28_Witness ==
    /\ nodes = NodesRing
    /\ generator_runs # <<>>
    /\ generator_runs[1].node = "n2"
    /\ curr = 1
    /\ last_generator_run.node = "n1"
    /\ ~should_skip[1]

(***************************************************************************)
(* What the node reached by a transition is told and is handed.            *)
(***************************************************************************)
\* C29: when an iteration of the per-trial loop moves from node A to node
\* B, B's _previous_node_name is A's node name afterwards, and the node
\* whose gen the iteration has called is B.
C29_PreviousNodeIsOrigin ==
    [][pc = "loop" /\ curr' # curr =>
          /\ previous_node_name'[curr'] = nodes[curr].node_name
          /\ \A g \in call'.node_gens \ call.node_gens :
                g.node = nodes[curr'].node_name
      ]_vars

\* what the loop does instead: the node reached carries its own name, and
\* it is the node that generates
C29_PreviousNodeIsItself ==
    [][pc = "loop" /\ curr' # curr =>
          /\ previous_node_name'[curr'] = nodes[curr'].node_name
          /\ \A g \in call'.node_gens \ call.node_gens :
                g.node = nodes[curr'].node_name
      ]_vars

\* the entry point of the call in progress or just finished
KindOfCall == IF pc = "idle" THEN result.op ELSE call.kind

\* C30: gen calls every node gen with skip_fit = False; the multi-trial
\* entry point calls every node gen of the first trial of the call with
\* skip_fit = False and, in later trials, with skip_fit = True unless the
\* iteration transitioned to a new node, when it is False; a node just
\* reached by a transition is never generated from with skip_fit = True.
C30_SkipFit ==
    \A g \in NodeGensOfCall :
       /\ KindOfCall = "gen" => ~g.skip_fit
       /\ KindOfCall = "multi" =>
             IF g.trial = 1 THEN ~g.skip_fit
             ELSE g.skip_fit = ~g.transitioned
       /\ g.transitioned => ~g.skip_fit

\* a multi-trial call has generated in its first trial, fitting, and in a
\* later trial from a node just reached by a transition, fitting it too
C30_Witness ==
    /\ MultiFinished
    /\ result.exc = Null
    /\ \E g \in result.node_gens :
          /\ g.trial = 1
          /\ ~g.skip_fit
    /\ \E g \in result.node_gens :
          /\ g.trial > 1
          /\ g.transitioned
          /\ ~g.skip_fit

\* a multi-trial call has generated in a later trial from the node kept
\* from the trial before, without fitting it again
C30_KeptNodeNotFitted ==
    /\ MultiFinished
    /\ result.exc = Null
    /\ \E g \in result.node_gens :
          /\ g.trial > 1
          /\ ~g.transitioned
          /\ g.skip_fit

(***************************************************************************)
(* A node that declines to generate.                                       *)
(***************************************************************************)
\* an iteration of the per-trial loop in which the node generated from has
\* set its _should_skip, which it does when it returns None
NodeDeclined == pc = "loop" /\ ~should_skip[curr'] /\ should_skip'[curr']

\* C31: when a node's gen returns None in the per-trial loop, the iteration
\* appends nothing to _generator_runs or to the list being returned, does
\* not extend the pending-observations map, and the loop goes on to another
\* iteration.
C31_SkipRecordsNothing ==
    [][NodeDeclined =>
          /\ generator_runs' = generator_runs
          /\ call'.grs_this_gen = call.grs_this_gen
          /\ call'.pending = call.pending
          /\ call'.caller_pending = call.caller_pending
          /\ pc' = "loop"
      ]_vars

\* a node has declined after another has contributed to the trial, and the
\* loop is about to iterate again with what it had
C31_Witness ==
    /\ pc = "loop"
    /\ call.grs_this_gen # <<>>
    /\ should_skip[curr]
    /\ \E g \in call.node_gens :
          /\ g.node = nodes[curr].node_name
          /\ g.recorded = Len(call.grs_this_gen)
          /\ g.recorded = Len(generator_runs) - Len(pre.generator_runs)

(***************************************************************************)
(* Going on with the same trial.                                           *)
(***************************************************************************)
\* the criteria of node i that point at target all ask to continue the trial
EdgeContinues(i, target) ==
    \A k \in 1..Len(nodes[i].transition_criteria) :
       nodes[i].transition_criteria[k].transition_to = target =>
          nodes[i].transition_criteria[k].continue_trial_generation

C32_FiresButEnds ==
    /\ pc = "trial_done"
    /\ call.grs_this_gen # <<>>
    /\ last_generator_run.node = nodes[curr].node_name
    /\ should_transition_to_next_node(curr, generator_runs, should_skip,
                                      FALSE).fires

(***************************************************************************)
(* How often a node is asked within one trial.                             *)
(***************************************************************************)
\* the nodes whose gen the loop of the trial in progress has called
AskedThisTrial ==
    {g.node : g \in {h \in call.node_gens :
                        h.trial = Len(call.grs_for_multiple_trials) + 1}}

\* C33: within one call of _gen_with_multiple_nodes each node generates at
\* most once: the list being returned never holds two runs of the same
\* node, and the gen of a node is never called twice.
C33_EachNodeOncePerTrial ==
    [][(Generated \/ NodeDeclined) =>
          /\ nodes[curr'].node_name \notin AskedThisTrial
          /\ \A k \in 1..Len(call.grs_this_gen) :
                call.grs_this_gen[k].node # nodes[curr'].node_name
      ]_vars

(***************************************************************************)
(* Termination of the per-trial loop.  Every call of a node's gen and      *)
(* every transition check comes back, so an iteration that has started     *)
(* completes, and a finished trial is handed back.                         *)
(***************************************************************************)
SpecSkipFair ==
    /\ SpecSkip
    /\ WF_vars(\E outcome \in NodeGenOutcomes : LoopIteration(outcome))
    /\ WF_vars(GenReturn)

\* C34: every call of _gen_with_multiple_nodes terminates, by returning or
\* by raising: the per-trial loop does not iterate forever, also when a
\* node returns None or the check of the current node keeps firing.
C34_PerTrialLoopTerminates == (pc = "loop") ~> (pc # "loop")

(***************************************************************************)
(* What a finished trial hands back.                                       *)
(***************************************************************************)
\* C35: when _gen_with_multiple_nodes returns normally the list it returns
\* is not empty, so that gen's access to its first element is defined, and
\* _generator_runs has grown during that call by exactly the runs returned,
\* in the same order.
C35_ReturnedRunsAreTheGrowth ==
    /\ pc = "trial_done" =>
          /\ call.grs_this_gen # <<>>
          /\ generator_runs =
                pre.generator_runs
                   \o Flatten(call.grs_for_multiple_trials)
                   \o call.grs_this_gen
    /\ (GenFinished /\ result.exc = Null) =>
          /\ result.runs # <<>>
          /\ result.runs[1] # <<>>

\* a later trial of a multi-trial call has come back with its runs, after
\* an earlier trial of the call and earlier calls left theirs in the log
C35_Witness ==
    /\ pc = "trial_done"
    /\ call.kind = "multi"
    /\ call.grs_for_multiple_trials # <<>>
    /\ Len(call.grs_this_gen) >= 1
    /\ pre.generator_runs # <<>>

(***************************************************************************)
(* DataRequiredError and the runs of the call.                             *)
(***************************************************************************)
\* the runs appended to the log since the call began
ProducedThisCall == Len(generator_runs) - Len(pre.generator_runs)

\* C36: in the multi-trial entry point a DataRequiredError raised by a node
\* after at least one run was produced in the call, runs of an earlier trial
\* of the call included, does not propagate.
C36_MultiSwallowsAfterAnyRun ==
    (MultiFinished /\ result.exc = "DataRequiredError"
        /\ result.at = "node_gen") => ProducedThisCall = 0

\* what holds instead: it propagates only from a trial that has produced
\* nothing itself
C36_PropagatesFromEmptyTrial ==
    (MultiFinished /\ result.exc = "DataRequiredError"
        /\ result.at = "node_gen") => result.trial_runs = 0

(***************************************************************************)
(* A strategy whose second node comes to need data, called through both    *)
(* entry points.                                                           *)
(***************************************************************************)
InitNeedy == InitOf({NodesNeedy})

NextNeedy ==
    \/ Gen(FirstExperiment, [isNone |-> TRUE, arms |-> {}])
    \/ \E n \in 1..MaxNumTrials :
          GenMulti(FirstExperiment, [isNone |-> TRUE, arms |-> {}], n,
                   NoArmsPerNode)
    \/ \E outcome \in NodeGenOutcomes : LoopIteration(outcome)
    \/ GenReturn
    \/ MultiNext
    \/ AttachTrial
    \/ \E t \in 1..Len(trials), status \in {COMPLETED, FAILED} :
          SetTrialStatus(t, status)
    \/ DiscardResult

SpecNeedy == InitNeedy /\ [][NextNeedy]_vars

\* C37: a DataRequiredError reaches the caller of a generation call only if
\* no generator run was produced in that call, whether it was signalled by
\* the transition check of _maybe_transition_to_next_node inside the loop
\* or by a node's gen.
C37_DataRequiredOnlyWithoutRuns ==
    (CallFinished /\ result.exc = "DataRequiredError") =>
        ProducedThisCall = 0

\* the part of C37 about the transition check alone
C37_TransitionCheckOnlyWithoutRuns ==
    (CallFinished /\ result.exc = "DataRequiredError"
        /\ result.at = "transition") => ProducedThisCall = 0

(***************************************************************************)
(* The model property of a strategy without runs.                          *)
(***************************************************************************)
\* C38: the model property is None whenever the strategy has produced no
\* generator runs: right after construction, after transitions made by
\* current_generator_run_limit alone, and on a strategy just returned by
\* clone_reset.
C38_NoRunsNoModel ==
    generator_runs = <<>> => ModelProperty = Null

(***************************************************************************)
(* The step index over time, on step-based strategies of two and of three  *)
(* steps.                                                                  *)
(***************************************************************************)
InitSteps == InitOf({StepsABC, StepsFinite, StepsAB})

NextSteps ==
    \/ Gen(FirstExperiment, [isNone |-> TRUE, arms |-> {}])
    \/ \E n \in 1..MaxNumTrials :
          GenMulti(FirstExperiment, [isNone |-> TRUE, arms |-> {}], n,
                   NoArmsPerNode)
    \/ \E outcome \in {"run", "DataRequiredError"} : LoopIteration(outcome)
    \/ GenReturn
    \/ MultiNext
    \/ CurrentGeneratorRunLimit
    \/ AttachTrial
    \/ \E t \in 1..Len(trials), status \in {COMPLETED, FAILED} :
          SetTrialStatus(t, status)
    \/ DiscardResult

SpecSteps == InitSteps /\ [][NextSteps]_vars

\* C39: for a step-based strategy current_step_index never decreases over
\* any sequence of gen, multi-trial and current_generator_run_limit calls,
\* and each single transition increases it by exactly 1.
C39_StepIndexAdvancesByOne ==
    [][~is_node_based =>
          /\ current_step_index.exc = Null
          /\ current_step_index'.exc = Null
          /\ current_step_index'.value >= current_step_index.value
          /\ curr' # curr =>
                current_step_index'.value = current_step_index.value + 1
      ]_vars

\* a strategy of three steps has moved twice and has generated from each
\* of its steps
C39_Witness ==
    /\ nodes = StepsABC
    /\ current_step_index = [exc |-> Null, value |-> 2]
    /\ Len(generator_runs) = 3
    /\ generator_runs[1].node = StepName(0)
    /\ generator_runs[2].node = StepName(1)
    /\ generator_runs[3].node = StepName(2)

(***************************************************************************)
(* What a query of the limit leaves behind.                                *)
(***************************************************************************)
\* a step in which current_generator_run_limit is called and comes back
LimitQueried == pc = "idle" /\ result = NoResult /\ result'.op = "limit"

\* C40: current_generator_run_limit changes nothing except possibly moving
\* _curr to the next node, clearing _model when it does: it appends nothing
\* to _generator_runs, calls no node's gen and leaves the experiment
\* binding.
C40_LimitQueryFrame ==
    [][LimitQueried =>
          /\ generator_runs' = generator_runs
          /\ experiment' = experiment
          /\ nodes' = nodes
          /\ trials' = trials
          /\ fitted_model' = fitted_model
          /\ should_skip' = should_skip
          /\ previous_node_name' = previous_node_name
          /\ call' = call
          /\ IF curr' = curr THEN model' = model ELSE model' = Null
      ]_vars

\* a query of the limit has moved a strategy that had generated and
\* carried a model, and the model is gone
C40_Witness ==
    /\ pc = "idle"
    /\ result.op = "limit"
    /\ result.exc = Null
    /\ curr # pre.curr
    /\ pre.model # Null
    /\ model = Null
    /\ generator_runs = pre.generator_runs
    /\ generator_runs # <<>>

====
